---- MODULE Spec2Model ----
(***************************************************************************)
(* Model of the patient-hub service layer: patientService (getPatients,    *)
(* getPatientHistory, getPatientMindMap) and diagnosisService              *)
(* (getMedicinesForDiagnosis), translated from                             *)
(* src/src/services/patient.service.ts.                                    *)
(*                                                                         *)
(* Conventions                                                             *)
(*  - A JavaScript string is a sequence of one-character strings.          *)
(*  - A position that may hold undefined/null (an optional field, an array *)
(*    item of an untyped response) is an option: None or Some(v).          *)
(*  - A call that may throw yields [threw |-> BOOLEAN, value |-> ...].     *)
(***************************************************************************)
EXTENDS Integers, Sequences, FiniteSets, TLC

\* ------------------------------------------------------------------------
\* Bounds of the model
\* ------------------------------------------------------------------------
MaxPrescriptions == 2

MaxMeds == 2

MaxAllergies == 2

MaxPatients == 2

MaxMedicines == 2

\* ------------------------------------------------------------------------
\* Options and strings
\* ------------------------------------------------------------------------
None == << >>

Some(v) == << v >>

IsSome(o) == o # None

Get(o) == o[1]

\* JavaScript truthiness of an optional string: undefined and "" are falsy
Truthy(o) == IsSome(o) /\ Get(o) # << >>

\* a || b on optional strings, with a literal as the last alternative
OrElse(o, dflt) == IF Truthy(o) THEN Get(o) ELSE dflt

\* `${x}` : undefined is rendered as the text "undefined"
StrUndefined == <<"u","n","d","e","f","i","n","e","d">>

Interp(o) == IF IsSome(o) THEN Get(o) ELSE StrUndefined

UpperChars == <<"A","B","C","D","E","F","G","H","I","J","K","L","M",
                "N","O","P","Q","R","S","T","U","V","W","X","Y","Z">>

LowerChars == <<"a","b","c","d","e","f","g","h","i","j","k","l","m",
                "n","o","p","q","r","s","t","u","v","w","x","y","z">>

LowerChar(ch) ==
    IF \E i \in 1..26 : UpperChars[i] = ch
    THEN LowerChars[CHOOSE i \in 1..26 : UpperChars[i] = ch]
    ELSE ch

\* String.prototype.toLowerCase
ToLowerCase(s) == [i \in 1..Len(s) |-> LowerChar(s[i])]

\* the character class \s, restricted to the characters the model uses
IsSpace(ch) == ch \in {" ", "\t"}

\* String.prototype.replace(/\s+/g, '-') : every maximal run of whitespace
\* becomes one hyphen
RECURSIVE ReplaceWhitespaceRuns(_)
ReplaceWhitespaceRuns(s) ==
    IF s = << >> THEN << >>
    ELSE IF IsSpace(Head(s))
         THEN IF Len(s) > 1 /\ IsSpace(s[2])
              THEN ReplaceWhitespaceRuns(Tail(s))
              ELSE <<"-">> \o ReplaceWhitespaceRuns(Tail(s))
         ELSE <<Head(s)>> \o ReplaceWhitespaceRuns(Tail(s))

\* String.prototype.includes
Includes(s, t) ==
    \E i \in 0..(Len(s) - Len(t)) : SubSeq(s, i + 1, i + Len(t)) = t

DigitChars == <<"0","1","2","3","4","5","6","7","8","9">>

\* `${n}` for a non-negative integer
RECURSIVE IntToStr(_)
IntToStr(n) ==
    IF n < 10 THEN <<DigitChars[n + 1]>>
    ELSE IntToStr(n \div 10) \o <<DigitChars[(n % 10) + 1]>>

\* Math.ceil(a / b) for a >= 0, b > 0
CeilDiv(a, b) == (a + b - 1) \div b

\* Array.prototype.slice(from, to) with 0 <= from <= to
Slice(s, from, to) ==
    LET lo == IF from > Len(s) THEN Len(s) ELSE from
        hi == IF to > Len(s) THEN Len(s) ELSE to
    IN  SubSeq(s, lo + 1, hi)

\* ------------------------------------------------------------------------
\* String literals of the source
\* ------------------------------------------------------------------------
StrUnknownCondition ==
    <<"U","n","k","n","o","w","n"," ","C","o","n","d","i","t","i","o","n">>

StrUnknownDate == <<"U","n","k","n","o","w","n"," ","D","a","t","e">>

StrUnknownPatient ==
    <<"U","n","k","n","o","w","n"," ","P","a","t","i","e","n","t">>

StrAllergySuffix == <<" ","A","l","l","e","r","g","y">>

StrOther == <<"o","t","h","e","r">>

\* ------------------------------------------------------------------------
\* mapBackendPatient
\* ------------------------------------------------------------------------
\* Converts a backend patient (snake_case, optional fields as options) to the
\* frontend format.  Reading a field of an undefined/null patient throws.
mapBackendPatient(backendPatient) ==
    IF ~IsSome(backendPatient)
    THEN [threw |-> TRUE, value |-> None]
    ELSE LET b == Get(backendPatient) IN
         [threw |-> FALSE,
          value |-> [id          |-> b.id,
                     uid         |-> b.patient_uid,
                     firstName   |-> b.first_name,
                     lastName    |-> b.last_name,
                     email       |-> b.email,
                     phone       |-> b.phone,
                     dateOfBirth |-> Some(OrElse(b.date_of_birth, << >>)),
                     gender      |-> Some(OrElse(b.gender, StrOther)),
                     address     |-> b.address,
                     bloodType   |-> b.blood_type,
                     allergies   |-> IF IsSome(b.allergies)
                                     THEN Get(b.allergies) ELSE << >>,
                     createdAt   |-> b.created_at,
                     updatedAt   |-> b.updated_at]]

\* ------------------------------------------------------------------------
\* getPatientHistory
\* ------------------------------------------------------------------------
\* response: [ok |-> BOOLEAN, body |-> option of the JSON body].  A body is
\* a record whose field `data` is None when the key is absent and Some(v)
\* when present (v itself an option: the key may hold null).
getPatientHistory(response) ==
    IF ~response.ok
    THEN [threw |-> TRUE, value |-> None]          \* api.get rejected
    ELSE IF ~IsSome(response.body)
    THEN [threw |-> TRUE, value |-> None]          \* 'data' in null
    ELSE LET body == Get(response.body) IN
         IF IsSome(body.data)
         THEN [threw |-> FALSE, value |-> Get(body.data)]
         ELSE [threw |-> FALSE,
               value |-> Some([patient       |-> body.patient,
                               prescriptions |-> body.prescriptions])]

\* ------------------------------------------------------------------------
\* getPatientMindMap
\* ------------------------------------------------------------------------
\* variant: the created date is not consulted
ResolvedDate_NoCreatedAt(prescription) ==
    OrElse(prescription.prescribed_date, StrUnknownDate)

\* the date of an encounter and of its medications
ResolvedDate(prescription) ==
    OrElse(prescription.prescribed_date,
           OrElse(prescription.created_at, StrUnknownDate))

\* variant: only a missing diagnosis falls back, an empty one is kept
DiagName_MissingOnly(prescription) ==
    IF IsSome(prescription.diagnosis) THEN Get(prescription.diagnosis)
    ELSE StrUnknownCondition

\* diagName = prescription.diagnosis || 'Unknown Condition'
DiagName(prescription) == OrElse(prescription.diagnosis, StrUnknownCondition)

\* `c-${diagName.toLowerCase().replace(/\s+/g, '-')}`
ConditionIdOf(diagName) ==
    <<"c", "-">> \o ReplaceWhitespaceRuns(ToLowerCase(diagName))

\* `e-${prescription.id}`
EncounterIdOf(prescription) == <<"e", "-">> \o Interp(prescription.id)

\* `m-${prescription.id}-${index}`, index counted from 0
MedicationIdOf(prescription, index) ==
    <<"m", "-">> \o Interp(prescription.id) \o <<"-">> \o IntToStr(index)

\* has(diagName) on the Map keyed by the diagnosis name
DiagnosisMapKey(diagName) == diagName

\* variant: only the first line item becomes a node
MedicationNodes_FirstOnly(prescription, meds) ==
    [i \in 1..(IF Len(meds) > 1 THEN 1 ELSE Len(meds)) |->
        [id             |-> MedicationIdOf(prescription, i - 1),
         encounterId    |-> EncounterIdOf(prescription),
         name           |-> Get(meds[i]).name,
         dosage         |-> OrElse(Get(meds[i]).dosage, << >>),
         active         |-> TRUE,
         prescribedDate |-> ResolvedDate(prescription)]]

\* prescription.medications.forEach((med, index) => medications.push(...))
\* meds: the items as options; an undefined/null item throws at med.name
MedicationNodes(prescription, meds) ==
    [i \in 1..Len(meds) |->
        LET med == Get(meds[i]) IN
        [id             |-> MedicationIdOf(prescription, i - 1),
         encounterId    |-> EncounterIdOf(prescription),
         name           |-> med.name,
         dosage         |-> OrElse(med.dosage, << >>),
         active         |-> TRUE,
         prescribedDate |-> ResolvedDate(prescription)]]

\* diagnosisMap.get(diagName) is defined
KnownDiagnosis(acc, prescription) ==
    DiagnosisMapKey(DiagName(prescription)) \in DOMAIN acc.diagnosisMap

\* conditionId after the get-or-create step
ConditionIdFor(acc, prescription) ==
    IF KnownDiagnosis(acc, prescription)
    THEN acc.diagnosisMap[DiagnosisMapKey(DiagName(prescription))]
    ELSE ConditionIdOf(DiagName(prescription))

\* variant: a later prescription of a known diagnosis overwrites the date
ConditionsPush_LastSeenDate(acc, prescription) ==
    IF KnownDiagnosis(acc, prescription)
    THEN [j \in 1..Len(acc.conditions) |->
            IF acc.conditions[j].name = DiagName(prescription)
            THEN [acc.conditions[j] EXCEPT
                    !.diagnosedDate = prescription.prescribed_date]
            ELSE acc.conditions[j]]
    ELSE Append(acc.conditions,
                [id            |-> ConditionIdOf(DiagName(prescription)),
                 name          |-> DiagName(prescription),
                 severity      |-> "medium",
                 diagnosedDate |-> prescription.prescribed_date])

\* variant: a new Condition is put in front of the others
ConditionsPush_Unshift(acc, prescription) ==
    IF KnownDiagnosis(acc, prescription)
    THEN acc.conditions
    ELSE <<[id            |-> ConditionIdOf(DiagName(prescription)),
            name          |-> DiagName(prescription),
            severity      |-> "medium",
            diagnosedDate |-> prescription.prescribed_date]>>
         \o acc.conditions

\* 1. Get or Create Condition Node: conditions after the step
ConditionsPush(acc, prescription) ==
    IF KnownDiagnosis(acc, prescription)
    THEN acc.conditions
    ELSE Append(acc.conditions,
                [id            |-> ConditionIdOf(DiagName(prescription)),
                 name          |-> DiagName(prescription),
                 severity      |-> "medium",
                 diagnosedDate |-> prescription.prescribed_date])

\* diagnosisMap.set(diagName, conditionId) when the name is new
DiagnosisMapSet(acc, prescription) ==
    IF KnownDiagnosis(acc, prescription)
    THEN acc.diagnosisMap
    ELSE (DiagnosisMapKey(DiagName(prescription))
            :> ConditionIdOf(DiagName(prescription))) @@ acc.diagnosisMap

\* variant: an Encounter is created only together with a new Condition
EncountersPush_NewConditionOnly(acc, prescription) ==
    IF KnownDiagnosis(acc, prescription)
    THEN acc.encounters
    ELSE Append(acc.encounters,
                [id          |-> EncounterIdOf(prescription),
                 conditionId |-> ConditionIdFor(acc, prescription),
                 date        |-> ResolvedDate(prescription)])

\* 2. Create Encounter Node: encounters after the step
EncountersPush(acc, prescription) ==
    Append(acc.encounters,
           [id          |-> EncounterIdOf(prescription),
            conditionId |-> ConditionIdFor(acc, prescription),
            date        |-> ResolvedDate(prescription)])

\* one iteration of history.prescriptions.forEach: acc holds diagnosisMap
\* and the three node arrays built so far; a null item throws at
\* prescription.diagnosis, a null medication item at med.name
ProcessPrescription(acc, item) ==
    IF acc.threw THEN acc
    ELSE IF ~IsSome(item) THEN [acc EXCEPT !.threw = TRUE]
    ELSE
    LET prescription == Get(item)
        hasMeds      == IsSome(prescription.medications)
        meds         == IF hasMeds THEN Get(prescription.medications) ELSE << >>
        badMed       == \E i \in 1..Len(meds) : ~IsSome(meds[i])
    IN  IF badMed
        THEN [acc EXCEPT !.threw = TRUE]
        ELSE [threw        |-> FALSE,
              diagnosisMap |-> DiagnosisMapSet(acc, prescription),
              conditions   |-> ConditionsPush(acc, prescription),
              encounters   |-> EncountersPush(acc, prescription),
              medications  |-> acc.medications
                               \o MedicationNodes(prescription, meds)]

RECURSIVE ForEachPrescription(_, _)
ForEachPrescription(acc, prescriptions) ==
    IF prescriptions = << >> THEN acc
    ELSE ForEachPrescription(ProcessPrescription(acc, Head(prescriptions)),
                             Tail(prescriptions))

EmptyAcc ==
    [threw |-> FALSE, diagnosisMap |-> << >>, conditions |-> << >>,
     encounters |-> << >>, medications |-> << >>]

\* variant: the last allergy gets no Alert
AlertNodes_DropLast(allergies) ==
    [i \in 1..(IF Len(allergies) > 0 THEN Len(allergies) - 1 ELSE 0) |->
        [id       |-> <<"a", "-">> \o IntToStr(i - 1),
         type     |-> "allergy",
         message  |-> Interp(allergies[i]) \o StrAllergySuffix,
         severity |-> "high"]]

\* patient.allergies.forEach((allergy, index) => alerts.push(...))
AlertNodes(allergies) ==
    [i \in 1..Len(allergies) |->
        [id       |-> <<"a", "-">> \o IntToStr(i - 1),
         type     |-> "allergy",
         message  |-> Interp(allergies[i]) \o StrAllergySuffix,
         severity |-> "high"]]

\* the catch branch: "Return minimal data instead of throwing"
FallbackMindMap(patientId) ==
    [patientId   |-> patientId,
     patientName |-> StrUnknownPatient,
     conditions  |-> << >>,
     encounters  |-> << >>,
     medications |-> << >>,
     alerts      |-> << >>]

\* the try block, for a history already fetched
BuildMindMap(patientId, history) ==
    IF ~IsSome(history) THEN [threw |-> TRUE, value |-> None]
    ELSE
    LET h       == Get(history)
        mapped  == mapBackendPatient(h.patient)
    IN  IF mapped.threw THEN [threw |-> TRUE, value |-> None]
        ELSE IF ~IsSome(h.prescriptions) THEN [threw |-> TRUE, value |-> None]
        ELSE
        LET patient == mapped.value
            acc     == ForEachPrescription(EmptyAcc, Get(h.prescriptions))
        IN  IF acc.threw THEN [threw |-> TRUE, value |-> None]
            ELSE [threw |-> FALSE,
                  value |-> [patientId   |-> patientId,
                             patientName |-> Interp(patient.firstName) \o <<" ">>
                                             \o Interp(patient.lastName),
                             conditions  |-> acc.conditions,
                             encounters  |-> acc.encounters,
                             medications |-> acc.medications,
                             alerts      |-> AlertNodes(patient.allergies)]]

\* variant: a failed fetch is rethrown instead of answered with the fallback
getPatientMindMap_Rethrow(patientId, response) ==
    LET fetched == getPatientHistory(response)
        built   == IF fetched.threw THEN fetched
                   ELSE BuildMindMap(patientId, fetched.value)
    IN  IF fetched.threw
        THEN [rejected |-> TRUE, value |-> None]
        ELSE IF built.threw
        THEN [rejected |-> FALSE, value |-> FallbackMindMap(patientId)]
        ELSE [rejected |-> FALSE, value |-> built.value]

\* the whole async function, once api.get has settled with `response`
getPatientMindMap(patientId, response) ==
    LET fetched == getPatientHistory(response)
        built   == IF fetched.threw THEN fetched
                   ELSE BuildMindMap(patientId, fetched.value)
    IN  IF built.threw
        THEN [rejected |-> FALSE, value |-> FallbackMindMap(patientId)]
        ELSE [rejected |-> FALSE, value |-> built.value]

\* ------------------------------------------------------------------------
\* getPatients
\* ------------------------------------------------------------------------
\* the search predicate of backendPatients.filter, evaluated left to right
\* with short-circuit: "throw" when a read hits undefined, else "yes"/"no"
SearchMatch(p, searchLower) ==
    IF ~IsSome(p) THEN "throw"
    ELSE LET b == Get(p) IN
    IF ~IsSome(b.first_name) THEN "throw"
    ELSE IF Includes(ToLowerCase(Get(b.first_name)), searchLower) THEN "yes"
    ELSE IF ~IsSome(b.last_name) THEN "throw"
    ELSE IF Includes(ToLowerCase(Get(b.last_name)), searchLower) THEN "yes"
    ELSE IF ~IsSome(b.patient_uid) THEN "throw"
    ELSE IF Includes(ToLowerCase(Get(b.patient_uid)), searchLower) THEN "yes"
    ELSE IF IsSome(b.email)
            /\ Includes(ToLowerCase(Get(b.email)), searchLower) THEN "yes"
    ELSE "no"

\* the search filter: applied only when `search` is truthy
FilterPatients(backendPatients, search) ==
    IF ~Truthy(search)
    THEN [threw |-> FALSE, value |-> backendPatients]
    ELSE LET searchLower == ToLowerCase(Get(search)) IN
         IF \E i \in 1..Len(backendPatients) :
                SearchMatch(backendPatients[i], searchLower) = "throw"
         THEN [threw |-> TRUE, value |-> << >>]
         ELSE [threw |-> FALSE,
               value |-> SelectSeq(backendPatients,
                           LAMBDA p : SearchMatch(p, searchLower) = "yes")]

\* body: [isArray, items, data]; an array body is used as is, an object body
\* through its data field (|| [] when the field is absent)
PatientListOf(body) ==
    IF body.isArray THEN body.items
    ELSE IF IsSome(body.data) THEN Get(body.data) ELSE << >>

\* the whole async function, once api.get has settled with `response`;
\* every failure is rethrown as Error('Failed to fetch patients')
getPatients(page, pageSize, search, response) ==
    IF ~response.ok \/ ~IsSome(response.body)
    THEN [rejected |-> TRUE, value |-> None]
    ELSE
    LET backendPatients == PatientListOf(Get(response.body))
        filtered        == FilterPatients(backendPatients, search)
    IN  IF filtered.threw
           \/ \E i \in 1..Len(filtered.value) : ~IsSome(filtered.value[i])
        THEN [rejected |-> TRUE, value |-> None]
        ELSE
        LET patients == [i \in 1..Len(filtered.value) |->
                            mapBackendPatient(filtered.value[i]).value]
        IN  [rejected |-> FALSE,
             value |-> Some([data       |-> Slice(patients, (page - 1) * pageSize,
                                                  page * pageSize),
                             total      |-> Len(patients),
                             page       |-> page,
                             pageSize   |-> pageSize,
                             totalPages |-> CeilDiv(Len(patients), pageSize)])]

\* ------------------------------------------------------------------------
\* getMedicinesForDiagnosis
\* ------------------------------------------------------------------------
\* A JSON value of the medicines response is [kind, items, fields]:
\* kind is "undefined", "null", "scalar", "array" or "object"; items are the
\* elements of an array; fields are the data and medicines properties of an
\* object (None otherwise).
IsArray(v) == v.kind = "array"

\* v.data for a non-null v: undefined unless v is an object
JUndefined == [kind |-> "undefined", items |-> << >>, fields |-> None]

DataOf(v) == IF v.kind = "object" THEN Get(v.fields).data ELSE JUndefined

MedicinesOf(v) == IF v.kind = "object" THEN Get(v.fields).medicines ELSE JUndefined

\* JavaScript truthiness of a JSON value (the model's scalars are truthy)
JTruthy(v) == v.kind \in {"scalar", "array", "object"}

\* variant: the notes are appended to the instructions
normalizeMedicines_AppendNotes(medicines) ==
    IF \E i \in 1..Len(medicines) : ~IsSome(medicines[i])
    THEN [threw |-> TRUE, value |-> << >>]
    ELSE [threw |-> FALSE,
          value |-> [i \in 1..Len(medicines) |->
             LET med == Get(medicines[i]) IN
             [id               |-> med.id,
              name             |-> med.name,
              drugClass        |-> med.drugClass,
              firstLine        |-> med.firstLine,
              notes            |-> med.notes,
              defaultDosage    |-> Some(OrElse(med.defaultDosage, << >>)),
              defaultFrequency |-> Some(OrElse(med.defaultFrequency, << >>)),
              defaultDuration  |-> Some(OrElse(med.defaultDuration, << >>)),
              instructions     |-> Some(OrElse(med.instructions, << >>)
                                        \o OrElse(med.notes, << >>))]]]

\* normalizeMedicines: a null item throws at med.defaultDosage
normalizeMedicines(medicines) ==
    IF \E i \in 1..Len(medicines) : ~IsSome(medicines[i])
    THEN [threw |-> TRUE, value |-> << >>]
    ELSE [threw |-> FALSE,
          value |-> [i \in 1..Len(medicines) |->
             LET med == Get(medicines[i]) IN
             [id               |-> med.id,
              name             |-> med.name,
              drugClass        |-> med.drugClass,
              firstLine        |-> med.firstLine,
              notes            |-> med.notes,
              defaultDosage    |-> Some(OrElse(med.defaultDosage, << >>)),
              defaultFrequency |-> Some(OrElse(med.defaultFrequency, << >>)),
              defaultDuration  |-> Some(OrElse(med.defaultDuration, << >>)),
              instructions     |-> Some(OrElse(med.instructions,
                                               OrElse(med.notes, << >>)))]]]

\* variant: the top-level medicines array is tested before data
UnwrapMedicines_TopLevelFirst(resp) ==
    IF JTruthy(DataOf(resp)) /\ JTruthy(MedicinesOf(DataOf(resp)))
       /\ IsArray(MedicinesOf(DataOf(resp)))
    THEN Some(MedicinesOf(DataOf(resp)).items)
    ELSE IF JTruthy(MedicinesOf(resp)) /\ IsArray(MedicinesOf(resp))
    THEN Some(MedicinesOf(resp).items)
    ELSE IF JTruthy(DataOf(resp)) /\ IsArray(DataOf(resp))
    THEN Some(DataOf(resp).items)
    ELSE IF IsArray(resp)
    THEN Some(resp.items)
    ELSE None

\* the four shape tests in source order: the array that is normalized, or
\* None when no test matches (response is not null)
UnwrapMedicines(resp) ==
    IF JTruthy(DataOf(resp)) /\ JTruthy(MedicinesOf(DataOf(resp)))
       /\ IsArray(MedicinesOf(DataOf(resp)))
    THEN Some(MedicinesOf(DataOf(resp)).items)
    ELSE IF JTruthy(DataOf(resp)) /\ IsArray(DataOf(resp))
    THEN Some(DataOf(resp).items)
    ELSE IF JTruthy(MedicinesOf(resp)) /\ IsArray(MedicinesOf(resp))
    THEN Some(MedicinesOf(resp).items)
    ELSE IF IsArray(resp)
    THEN Some(resp.items)
    ELSE None

\* variant: a rejected api.get is not caught
getMedicinesForDiagnosis_NoCatch(response) ==
    IF ~response.ok
    THEN [rejected |-> TRUE, value |-> << >>]
    ELSE LET resp == response.body IN
    IF resp.kind \in {"null", "undefined"}
    THEN [rejected |-> TRUE, value |-> << >>]
    ELSE LET unwrapped == UnwrapMedicines(resp) IN
    IF ~IsSome(unwrapped)
    THEN [rejected |-> FALSE, value |-> << >>]
    ELSE LET normalized == normalizeMedicines(Get(unwrapped)) IN
         IF normalized.threw
         THEN [rejected |-> TRUE, value |-> << >>]
         ELSE [rejected |-> FALSE, value |-> normalized.value]

\* the whole async function, once api.get has settled with `response`;
\* body is the JSON value received
getMedicinesForDiagnosis(response) ==
    IF ~response.ok
    THEN [rejected |-> FALSE, value |-> << >>]        \* catch: return []
    ELSE LET resp == response.body IN
    IF resp.kind \in {"null", "undefined"}
    THEN [rejected |-> FALSE, value |-> << >>]        \* response.data throws
    ELSE LET unwrapped == UnwrapMedicines(resp) IN
    IF ~IsSome(unwrapped)
    THEN [rejected |-> FALSE, value |-> << >>]        \* unexpected format
    ELSE LET normalized == normalizeMedicines(Get(unwrapped)) IN
         IF normalized.threw
         THEN [rejected |-> FALSE, value |-> << >>]
         ELSE [rejected |-> FALSE, value |-> normalized.value]

\* ------------------------------------------------------------------------
\* Backend data the model draws responses from
\* ------------------------------------------------------------------------
StrFlu == <<"F","l","u">>

StrFluLower == <<"f","l","u">>

StrFluPadded == <<" ","F","l","u"," ">>

Date0101 == <<"2","0","2","4","-","0","1","-","0","1">>

Date0201 == <<"2","0","2","4","-","0","2","-","0","1">>

Date0301 == <<"2","0","2","4","-","0","3","-","0","1">>

\* prescription.diagnosis: missing, empty, and three spellings of one name
Diagnoses == {None, Some(<< >>), Some(StrFlu), Some(StrFluLower),
              Some(StrFluPadded)}

\* <<prescribed_date, created_at>>
DatePairs == {<<Some(Date0101), Some(Date0301)>>,
              <<Some(Date0201), Some(Date0301)>>,
              <<None, Some(Date0301)>>,
              <<None, None>>}

MedNames == << <<"A","m","o","x">>, <<"I","b","u">>, <<"Z","i","n","c">> >>

Med(i) ==
    [name   |-> Some(MedNames[((i - 1) % Len(MedNames)) + 1]),
     dosage |-> IF i % 2 = 1 THEN Some(<<"5","m","g">>) ELSE None]

\* a well-formed medications array of n line items
MedList(n) == [i \in 1..n |-> Some(Med(i))]

\* a backend prescription without its id (the id is given by the position
\* in the history: the backend's ids are distinct)
RxBody(diagnosis, dates, medications) ==
    [diagnosis       |-> diagnosis,
     prescribed_date |-> dates[1],
     created_at      |-> dates[2],
     medications     |-> medications]

\* the dates and the medications of a prescription that varies elsewhere
DefaultDates == <<Some(Date0101), Some(Date0301)>>

\* well-formed prescriptions: every diagnosis, every date pair and every
\* medications shape (missing, 0..MaxMeds items), each varied on its own
TypedRxBodies ==
    {RxBody(d, DefaultDates, Some(MedList(1))) : d \in Diagnoses}
    \cup {RxBody(Some(StrFlu), dp, Some(MedList(1))) : dp \in DatePairs}
    \cup {RxBody(Some(StrFlu), DefaultDates, m) :
            m \in {None} \cup {Some(MedList(n)) : n \in 0..MaxMeds}}

\* prescriptions whose medications array holds a null item
MalformedRxBodies ==
    {RxBody(Some(StrFlu), DefaultDates, Some(<<Some(Med(1)), None>>))}

WithId(body, i) ==
    [id              |-> Some(<<"r">> \o IntToStr(i)),
     diagnosis       |-> body.diagnosis,
     prescribed_date |-> body.prescribed_date,
     created_at      |-> body.created_at,
     medications     |-> body.medications]

\* lists of length n over `bodies`; with nulls = TRUE an item may be null
RECURSIVE RxListsOfLen(_, _, _)
RxListsOfLen(n, bodies, nulls) ==
    IF n = 0 THEN {<< >>}
    ELSE {Append(l, x) :
            l \in RxListsOfLen(n - 1, bodies, nulls),
            x \in {Some(WithId(b, n)) : b \in bodies}
                  \cup (IF nulls THEN {None} ELSE {})}

\* lists of length 0..n
RxLists(n, bodies, nulls) ==
    UNION {RxListsOfLen(k, bodies, nulls) : k \in 0..n}

AllergyNames == << <<"L","a","t","e","x">>, <<"E","g","g","s">>,
                   <<"D","u","s","t">> >>

AllergyList(n) ==
    [i \in 1..n |-> Some(AllergyNames[((i - 1) % Len(AllergyNames)) + 1])]

StrAnn == <<"A","n","n">>

StrLee == <<"L","e","e">>

StrBob == <<"B","o","b">>

StrRay == <<"R","a","y">>

\* a backend patient; uid is the text after "P-" in patient_uid
BackendPatient(idx, first, last, allergies) ==
    [id            |-> Some(<<"p">> \o IntToStr(idx)),
     patient_uid   |-> Some(<<"P", "-">> \o IntToStr(idx)),
     first_name    |-> first,
     last_name     |-> last,
     email         |-> None,
     phone         |-> None,
     date_of_birth |-> None,
     gender        |-> None,
     address       |-> None,
     blood_type    |-> None,
     allergies     |-> allergies,
     doctor_id     |-> Some(<<"d","1">>),
     created_at    |-> Some(Date0101),
     updated_at    |-> Some(Date0101)]

\* the patient of a history: allergies missing or 0..MaxAllergies entries
HistoryPatients ==
    {BackendPatient(1, Some(StrAnn), Some(StrLee), a) :
        a \in {None} \cup {Some(AllergyList(n)) : n \in 0..MaxAllergies}}
    \cup {BackendPatient(2, Some(StrBob), Some(StrRay), a) :
        a \in {None} \cup {Some(AllergyList(n)) : n \in 0..MaxAllergies}}

BareBody(patient, prescriptions) ==
    [data |-> None, patient |-> patient, prescriptions |-> prescriptions]

WrappedBody(history) ==
    [data |-> Some(history), patient |-> None, prescriptions |-> None]

\* well-typed bodies of GET /patients/:id/history, bare or in a data envelope
TypedHistoryBodies ==
    {IF wrapped
     THEN Some(WrappedBody(Some([patient |-> Some(p), prescriptions |-> Some(l)])))
     ELSE Some(BareBody(Some(p), Some(l))) :
        p \in HistoryPatients,
        l \in RxLists(MaxPrescriptions, TypedRxBodies, FALSE),
        wrapped \in BOOLEAN}

\* a prescription list holds a null item or a null medication item
RxListMalformed(l) ==
    \E i \in 1..Len(l) :
       \/ ~IsSome(l[i])
       \/ /\ IsSome(Get(l[i]).medications)
          /\ \E k \in 1..Len(Get(Get(l[i]).medications)) :
                ~IsSome(Get(Get(l[i]).medications)[k])

\* bodies that break the declared types: null body, null data, missing
\* patient or prescriptions, null prescription, null medication item
MalformedHistoryBodies ==
    LET p == BackendPatient(1, Some(StrAnn), Some(StrLee), Some(AllergyList(1)))
    IN  {None, Some(WrappedBody(None)),
         Some(BareBody(None, Some(<< >>))),
         Some(BareBody(Some(p), None))}
        \cup {Some(BareBody(Some(p), Some(l))) :
                l \in {x \in RxLists(MaxPrescriptions,
                                     TypedRxBodies \cup MalformedRxBodies, TRUE) :
                          RxListMalformed(x)}}

PatientIds == {<<"p","1">>, <<"p","2">>}

\* GET /patients/${patientId}/history answers with that patient's history:
\* a body that names a patient names the one asked for
AnswersFor(body, patientId) ==
    IF ~IsSome(body) THEN TRUE
    ELSE LET b == Get(body)
             h == IF IsSome(b.data) THEN Get(b.data)
                  ELSE Some([patient |-> b.patient])
         IN  (IsSome(h) /\ IsSome(Get(h).patient))
                => Get(Get(h).patient).id = Some(patientId)

\* patients of GET /patients: with and without an e-mail address
StrMail == <<"a","@","x">>

TypedListPatients(idx) ==
    {[BackendPatient(idx, Some(StrAnn), Some(StrLee), None)
         EXCEPT !.email = Some(StrMail)],
     BackendPatient(idx, Some(StrBob), Some(StrRay), Some(AllergyList(1)))}

\* a record without its required first_name
MalformedListPatients(idx) ==
    {BackendPatient(idx, None, Some(StrLee), None)}

\* lists of length 0..n; typed = FALSE adds malformed records and null items
RECURSIVE PatientLists(_, _)
PatientLists(n, typed) ==
    IF n = 0 THEN {<< >>}
    ELSE LET shorter == PatientLists(n - 1, typed)
             longest == {l \in shorter : Len(l) = n - 1}
             pool    == IF typed THEN TypedListPatients(n)
                        ELSE TypedListPatients(n) \cup MalformedListPatients(n)
         IN  shorter
             \cup {Append(l, Some(b)) : l \in longest, b \in pool}
             \cup (IF typed THEN {} ELSE {Append(l, None) : l \in longest})

ArrayBody(items) == [isArray |-> TRUE, items |-> items, data |-> None]

DataBody(data) == [isArray |-> FALSE, items |-> << >>, data |-> data]

\* bodies of GET /patients: the bare array, { data: [...] } and { }
PatientListBodies(typed) ==
    {Some(ArrayBody(l)) : l \in PatientLists(MaxPatients, typed)}
    \cup {Some(DataBody(Some(l))) : l \in PatientLists(MaxPatients, typed)}
    \cup {Some(DataBody(None))}
    \cup (IF typed THEN {} ELSE {None})

TypedPatientListBodies == PatientListBodies(TRUE)

RawPatientListBodies == PatientListBodies(FALSE)

\* search terms: none, empty, matching a first name, a last name (in upper
\* case), a uid, an e-mail address, and matching nothing
Searches == {None, Some(<< >>), Some(<<"a","n">>), Some(<<"R","A","Y">>),
             Some(<<"p","-","1">>), Some(<<"@">>), Some(<<"z","z">>)}

Pages == {1, 2}

PageSizes == {1, 10}

\* medicines of GET /diagnoses/:id/medicines; tag tells the arrays apart
Medicine(tag, i) ==
    [id               |-> Some(<<tag>> \o IntToStr(i)),
     name             |-> Some(MedNames[((i - 1) % Len(MedNames)) + 1]),
     drugClass        |-> None,
     firstLine        |-> None,
     notes            |-> IF i % 2 = 1 THEN Some(<<"n">>) ELSE None,
     defaultDosage    |-> IF i % 2 = 0 THEN Some(<<"5","m","g">>) ELSE None,
     defaultFrequency |-> None,
     defaultDuration  |-> None,
     instructions     |-> None]

JArray(items) == [kind |-> "array", items |-> items, fields |-> None]

JObject(data, medicines) ==
    [kind |-> "object", items |-> << >>,
     fields |-> Some([data |-> data, medicines |-> medicines])]

JNull == [kind |-> "null", items |-> << >>, fields |-> None]

JScalar == [kind |-> "scalar", items |-> << >>, fields |-> None]

\* arrays of 0..MaxMedicines well-formed medicines; raw = TRUE adds an
\* array whose second item is null
MedicineArrays(tag, raw) ==
    {JArray([i \in 1..n |-> Some(Medicine(tag, i))]) : n \in 0..MaxMedicines}
    \cup (IF raw THEN {JArray(<<Some(Medicine(tag, 1)), None>>)} ELSE {})

\* what a property that should hold a medicines array may hold instead
NonArrays == {JUndefined, JNull, JScalar}

\* every combination of the four known shapes, and the unknown ones
MedicineBodiesOf(raw) ==
    LET nested == {JObject(JUndefined, m) :
                      m \in NonArrays \cup MedicineArrays("a", raw)}
        datas  == NonArrays \cup MedicineArrays("b", raw) \cup nested
        tops   == NonArrays \cup MedicineArrays("c", raw)
    IN  {JObject(d, m) : d \in datas, m \in tops}
        \cup MedicineArrays("d", raw) \cup {JNull, JScalar}

MedicineBodies == MedicineBodiesOf(FALSE)

RawMedicineBodies == MedicineBodiesOf(TRUE)

DiagnosisIds == {<<"d","x","1">>, <<"d","x","2">>}


\* ------------------------------------------------------------------------
\* State
\* ------------------------------------------------------------------------
VARIABLES
    pc,        \* "idle", "awaiting" (api.get in flight) or "done"
    op,        \* the service function called
    args,      \* its arguments
    response,  \* how api.get settled: [ok, body]
    result,    \* what the function returned: [rejected, value]
    backend,   \* PatientMindMap: the history the backend holds per patient
    viewed,    \* the patientId prop of the mounted component (None: unmounted)
    fetching,  \* query keys ['patient', id, 'mindmap'] with a fetch in flight
    queryData, \* the query cache: per patient id, the data or None
    highlightedNodeId,  \* useState: the clicked node id or None (null)
    nodes,     \* useMemo result handed to ReactFlow
    edges,
    authStore, \* useAuthStore: [token, user], None while signed out
    supabaseConfigured, \* isSupabaseConfigured(): fixed by the build's env
    diagnosisIds,     \* useMultipleDiagnosisMedicines: the selected diagnoses
    queries,          \* the cache: per key ['diagnosis-medicines', id]
    requestLog,       \* per key, how each GET of its latest fetch ended
    medicinesList,    \* MedicineRow: the medicines prop, as an array
    formValues,       \* the row's fields in the form (medications.<index>)
    showSuggestions,  \* useState
    highlightedIndex, \* useState: 0-based position in the list, or -1
    rowEvent          \* the last event the row handled

\* the state of the PatientMindMap component and of its queries
view == <<backend, viewed, fetching, queryData, highlightedNodeId, nodes, edges>>

\* the auth store and the environment of authService
auth == <<authStore, supabaseConfigured>>

\* the call in flight of a service function
call == <<pc, op, args, response, result>>

\* the queries of useMultipleDiagnosisMedicines
hook == <<diagnosisIds, queries, requestLog>>

\* the state of one MedicineRow
row == <<medicinesList, formValues, showSuggestions, highlightedIndex, rowEvent>>

\* the prescription form: the medicines hook and a medicine row
prescriptionForm == <<hook, row>>

vars == <<call, view, auth, prescriptionForm>>

NoResponse == [ok |-> FALSE, body |-> None]

NoResult == [rejected |-> FALSE, value |-> None]

\* a query that was never fetched (data, error: None is undefined, null)
IdleQuery ==
    [status |-> "pending", fetchStatus |-> "idle", data |-> None,
     error |-> None, failureCount |-> 0]

NoValues ==
    [name |-> << >>, dosage |-> << >>, frequency |-> << >>,
     duration |-> << >>, instructions |-> << >>]

\* the prescription form is not mounted
FormUnmounted ==
    /\ diagnosisIds = << >>
    /\ queries = [id \in DiagnosisIds |-> IdleQuery]
    /\ requestLog = [id \in DiagnosisIds |-> << >>]
    /\ medicinesList = << >>
    /\ formValues = NoValues
    /\ showSuggestions = FALSE
    /\ highlightedIndex = 0 - 1
    /\ rowEvent = "none"

\* no service call is under way
ServiceIdle ==
    /\ pc = "idle"
    /\ op = "none"
    /\ args = [patientId |-> None]
    /\ response = NoResponse
    /\ result = NoResult

\* the PatientMindMap component is not mounted
ViewUnmounted ==
    /\ backend = [p \in PatientIds |-> None]
    /\ viewed = None
    /\ fetching = {}
    /\ queryData = [p \in PatientIds |-> None]
    /\ highlightedNodeId = None
    /\ nodes = << >>
    /\ edges = << >>

\* nobody is signed in
SignedOut == authStore = [token |-> None, user |-> None]

Init ==
    /\ ServiceIdle
    /\ ViewUnmounted
    /\ SignedOut
    /\ supabaseConfigured = TRUE
    /\ FormUnmounted

\* a caller (a query function) invokes getPatientMindMap(patientId); the
\* function runs up to its await
CallGetPatientMindMap ==
    /\ pc = "idle"
    /\ \E patientId \in PatientIds :
         args' = [patientId |-> patientId]
    /\ pc' = "awaiting"
    /\ op' = "getPatientMindMap"
    /\ response' = NoResponse
    /\ result' = NoResult
    /\ UNCHANGED <<view, auth, prescriptionForm>>

\* api.get resolves with `body` and the function runs to its return
ResolveGetPatientMindMap(bodies) ==
    /\ pc = "awaiting"
    /\ op = "getPatientMindMap"
    /\ \E body \in bodies :
         /\ AnswersFor(body, args.patientId)
         /\ response' = [ok |-> TRUE, body |-> body]
         /\ result' = getPatientMindMap(args.patientId, response')
    /\ pc' = "done"
    /\ UNCHANGED <<op, args>>
    /\ UNCHANGED <<view, auth, prescriptionForm>>

\* api.get rejects (network, auth, 5xx) and the function runs to its return
RejectGetPatientMindMap ==
    /\ pc = "awaiting"
    /\ op = "getPatientMindMap"
    /\ response' = [ok |-> FALSE, body |-> None]
    /\ result' = getPatientMindMap(args.patientId, response')
    /\ pc' = "done"
    /\ UNCHANGED <<op, args>>
    /\ UNCHANGED <<view, auth, prescriptionForm>>

\* a caller invokes getPatients(page, pageSize, search)
CallGetPatients ==
    /\ pc = "idle"
    /\ \E page \in Pages, pageSize \in PageSizes, search \in Searches :
         args' = [page |-> page, pageSize |-> pageSize, search |-> search]
    /\ pc' = "awaiting"
    /\ op' = "getPatients"
    /\ response' = NoResponse
    /\ result' = NoResult
    /\ UNCHANGED <<view, auth, prescriptionForm>>

\* api.get('/patients') resolves and the function runs to its return or throw
ResolveGetPatients(bodies) ==
    /\ pc = "awaiting"
    /\ op = "getPatients"
    /\ \E body \in bodies :
         /\ response' = [ok |-> TRUE, body |-> body]
         /\ result' = getPatients(args.page, args.pageSize, args.search, response')
    /\ pc' = "done"
    /\ UNCHANGED <<op, args>>
    /\ UNCHANGED <<view, auth, prescriptionForm>>

\* api.get('/patients') rejects
RejectGetPatients ==
    /\ pc = "awaiting"
    /\ op = "getPatients"
    /\ response' = [ok |-> FALSE, body |-> None]
    /\ result' = getPatients(args.page, args.pageSize, args.search, response')
    /\ pc' = "done"
    /\ UNCHANGED <<op, args>>
    /\ UNCHANGED <<view, auth, prescriptionForm>>

\* a caller invokes getMedicinesForDiagnosis(diagnosisId)
CallGetMedicinesForDiagnosis ==
    /\ pc = "idle"
    /\ \E diagnosisId \in DiagnosisIds :
         args' = [diagnosisId |-> diagnosisId]
    /\ pc' = "awaiting"
    /\ op' = "getMedicinesForDiagnosis"
    /\ response' = NoResponse
    /\ result' = NoResult
    /\ UNCHANGED <<view, auth, prescriptionForm>>

\* api.get resolves with the JSON value `body`
ResolveGetMedicinesForDiagnosis(bodies) ==
    /\ pc = "awaiting"
    /\ op = "getMedicinesForDiagnosis"
    /\ \E body \in bodies :
         /\ response' = [ok |-> TRUE, body |-> body]
         /\ result' = getMedicinesForDiagnosis(response')
    /\ pc' = "done"
    /\ UNCHANGED <<op, args>>
    /\ UNCHANGED <<view, auth, prescriptionForm>>

\* api.get rejects
RejectGetMedicinesForDiagnosis ==
    /\ pc = "awaiting"
    /\ op = "getMedicinesForDiagnosis"
    /\ response' = [ok |-> FALSE, body |-> None]
    /\ result' = getMedicinesForDiagnosis(response')
    /\ pc' = "done"
    /\ UNCHANGED <<op, args>>
    /\ UNCHANGED <<view, auth, prescriptionForm>>

\* the caller has taken the settled promise; the service holds no state
\* between calls
Settle ==
    /\ pc = "done"
    /\ pc' = "idle"
    /\ op' = "none"
    /\ args' = [patientId |-> None]
    /\ response' = NoResponse
    /\ result' = NoResult
    /\ UNCHANGED <<view, auth, prescriptionForm>>

\* responses that respect the declared backend types
Next ==
    \/ CallGetPatientMindMap
    \/ ResolveGetPatientMindMap(TypedHistoryBodies)
    \/ RejectGetPatientMindMap
    \/ CallGetPatients
    \/ ResolveGetPatients(TypedPatientListBodies)
    \/ RejectGetPatients
    \/ CallGetMedicinesForDiagnosis
    \/ ResolveGetMedicinesForDiagnosis(MedicineBodies)
    \/ RejectGetMedicinesForDiagnosis
    \/ Settle

Spec == Init /\ [][Next]_vars

\* responses of any shape, malformed records included
NextRaw ==
    \/ CallGetPatientMindMap
    \/ ResolveGetPatientMindMap(TypedHistoryBodies)
    \/ ResolveGetPatientMindMap(MalformedHistoryBodies)
    \/ RejectGetPatientMindMap
    \/ CallGetPatients
    \/ ResolveGetPatients(RawPatientListBodies)
    \/ RejectGetPatients
    \/ CallGetMedicinesForDiagnosis
    \/ ResolveGetMedicinesForDiagnosis(RawMedicineBodies)
    \/ RejectGetMedicinesForDiagnosis
    \/ Settle

SpecRaw == Init /\ [][NextRaw]_vars

\* ------------------------------------------------------------------------
\* PatientMindMap: the layout computed in useMemo
\* ------------------------------------------------------------------------
ConditionX == 350

EncounterX == 750

MedX == 1100

NodeHeight == 60

Gap == 30

AlertX == 0 - 300

AlertStep == 100

StrPatientNode == <<"p","a","t","i","e","n","t">>

StrConditionPrefix == <<"c","o","n","d","i","t","i","o","n","-">>

StrEncPrefix == <<"e","n","c","-">>

StrMedPrefix == <<"m","e","d","-">>

StrAlertPrefix == <<"a","l","e","r","t","-">>

Max(a, b) == IF a >= b THEN a ELSE b

\* let currentY = 0
StartY == 0

\* a ReactFlow node: id, position and what the style shows of the selection;
\* label is None where the code renders it with toLocaleDateString
FlowNode(id, x, y, label, highlighted) ==
    [id |-> id, x |-> x, y |-> y, label |-> label, highlighted |-> highlighted]

\* a ReactFlow edge; strong: drawn with the highlighted stroke
FlowEdge(id, source, target, strong) ==
    [id |-> id, source |-> source, target |-> target, strong |-> strong]

\* the centre node, pushed first
PatientNode(data) ==
    FlowNode(StrPatientNode, 0, 0, Some(data.patientName), FALSE)

\* variant: every medication of an encounter is placed at the cursor
MedY_AtCursor(currentY, i) == currentY

\* medY = currentY + (i * (nodeHeight + gap)), i counted from 0
MedY(currentY, i) == currentY + (i * (NodeHeight + Gap))

\* the node of medication m, the i-th (from 0) of its encounter
MedNode(m, i, currentY) ==
    FlowNode(StrMedPrefix \o m.id, MedX, MedY(currentY, i),
             Some(Interp(m.name) \o <<" ", "(">> \o m.dosage \o <<")">>),
             FALSE)

\* Link Encounter -> Medication
MedEdge(e, m, isBranchHighlighted) ==
    FlowEdge(<<"e","-","e","n","c","-","m","e","d","-">> \o m.id,
             StrEncPrefix \o e.id, StrMedPrefix \o m.id, isBranchHighlighted)

\* Math.max(1, meds.length) * (nodeHeight + gap)
EncounterBranchHeight(meds) == Max(1, Len(meds)) * (NodeHeight + Gap)

\* the node of encounter e; the branch height is a multiple of
\* nodeHeight + gap = 90 and nodeHeight is 60, so both halves are integers
EncounterNode(e, meds, currentY) ==
    FlowNode(StrEncPrefix \o e.id, EncounterX,
             currentY + (EncounterBranchHeight(meds) \div 2)
                      - (NodeHeight \div 2),
             None, FALSE)

\* Link Condition -> Encounter
EncounterEdge(conditionNodeId, e, isBranchHighlighted) ==
    FlowEdge(<<"e","-","c","o","n","d","-","e","n","c","-">> \o e.id,
             conditionNodeId, StrEncPrefix \o e.id, isBranchHighlighted)

\* one iteration of conditionEncounters.forEach; acc is [nodes, edges,
\* currentY]
LayoutEncounter(acc, data, e, conditionNodeId, isBranchHighlighted) ==
    LET meds == SelectSeq(data.medications, LAMBDA m : m.encounterId = e.id)
    IN  [nodes    |-> acc.nodes
                      \o <<EncounterNode(e, meds, acc.currentY)>>
                      \o [i \in 1..Len(meds) |->
                            MedNode(meds[i], i - 1, acc.currentY)],
         edges    |-> acc.edges
                      \o <<EncounterEdge(conditionNodeId, e, isBranchHighlighted)>>
                      \o [i \in 1..Len(meds) |->
                            MedEdge(e, meds[i], isBranchHighlighted)],
         currentY |-> acc.currentY + EncounterBranchHeight(meds) + Gap]

RECURSIVE LayoutEncounters(_, _, _, _, _)
LayoutEncounters(acc, data, encounters, conditionNodeId, isBranchHighlighted) ==
    IF encounters = << >> THEN acc
    ELSE LayoutEncounters(
            LayoutEncounter(acc, data, Head(encounters), conditionNodeId,
                            isBranchHighlighted),
            data, Tail(encounters), conditionNodeId, isBranchHighlighted)

\* variant: the selected condition is drawn shifted to the right
ConditionNode_ShiftWhenSelected(c, startY, conditionY, isBranchHighlighted) ==
    FlowNode(StrConditionPrefix \o c.id,
             IF isBranchHighlighted THEN ConditionX + Gap ELSE ConditionX,
             Max(startY, conditionY), Some(c.name), isBranchHighlighted)

\* Add Condition Node
ConditionNode(c, startY, conditionY, isBranchHighlighted) ==
    FlowNode(StrConditionPrefix \o c.id, ConditionX,
             Max(startY, conditionY), Some(c.name), isBranchHighlighted)

\* Link Patient -> Condition
ConditionEdge(c, isBranchHighlighted) ==
    FlowEdge(<<"e","-","p","a","t","-","c","o","n","d","-">> \o c.id,
             StrPatientNode, StrConditionPrefix \o c.id, isBranchHighlighted)

\* one iteration of data.conditions.forEach.  The block height is a sum of
\* multiples of 90 and of 30, less 30 + 30 or 30: always even, so the
\* division by two is exact
LayoutCondition(acc, data, c, highlighted) ==
    LET conditionEncounters ==
            SelectSeq(data.encounters, LAMBDA e : e.conditionId = c.id)
        startY              == acc.currentY
        conditionNodeId     == StrConditionPrefix \o c.id
        isBranchHighlighted == highlighted = Some(conditionNodeId)
        branch == LayoutEncounters(acc, data, conditionEncounters,
                                   conditionNodeId, isBranchHighlighted)
        afterY == IF Len(conditionEncounters) = 0
                  THEN branch.currentY + NodeHeight + Gap
                  ELSE branch.currentY
        conditionBlockHeight == afterY - startY - Gap
        conditionY           == startY + (conditionBlockHeight \div 2)
    IN  [nodes    |-> Append(branch.nodes,
                             ConditionNode(c, startY, conditionY,
                                           isBranchHighlighted)),
         edges    |-> Append(branch.edges,
                             ConditionEdge(c, isBranchHighlighted)),
         currentY |-> afterY + Gap]

RECURSIVE LayoutConditions(_, _, _, _)
LayoutConditions(acc, data, conditions, highlighted) ==
    IF conditions = << >> THEN acc
    ELSE LayoutConditions(LayoutCondition(acc, data, Head(conditions), highlighted),
                          data, Tail(conditions), highlighted)

\* the node of alert a, the i-th (from 0); the warning sign of the label is
\* written "!"
AlertNode(a, i, highlighted) ==
    FlowNode(StrAlertPrefix \o a.id, AlertX, i * AlertStep,
             Some(<<"!", " ">> \o a.message),
             highlighted = Some(StrAlertPrefix \o a.id))

\* variant: the edge of an alert leaves the patient
AlertEdge_FromPatient(a, highlighted) ==
    FlowEdge(<<"e","-","a","-">> \o a.id,
             StrPatientNode, StrAlertPrefix \o a.id,
             highlighted = Some(StrAlertPrefix \o a.id))

\* the edge pushed with each alert
AlertEdge(a, highlighted) ==
    FlowEdge(<<"e","-","a","-">> \o a.id,
             StrAlertPrefix \o a.id, StrPatientNode,
             highlighted = Some(StrAlertPrefix \o a.id))

\* data.alerts.forEach
LayoutAlerts(acc, data, highlighted) ==
    [nodes    |-> acc.nodes
                  \o [i \in 1..Len(data.alerts) |->
                        AlertNode(data.alerts[i], i - 1, highlighted)],
     edges    |-> acc.edges
                  \o [i \in 1..Len(data.alerts) |->
                        AlertEdge(data.alerts[i], highlighted)],
     currentY |-> acc.currentY]

\* variant: nothing is drawn for a patient without conditions and alerts
Layout_NothingWhenBare(data, highlighted) ==
    IF ~IsSome(data) THEN [nodes |-> << >>, edges |-> << >>]
    ELSE IF Get(data).conditions = << >> /\ Get(data).alerts = << >>
    THEN [nodes |-> << >>, edges |-> << >>]
    ELSE
    LET d     == Get(data)
        start == [nodes |-> <<PatientNode(d)>>, edges |-> << >>,
                  currentY |-> StartY]
        done  == LayoutAlerts(LayoutConditions(start, d, d.conditions, highlighted),
                              d, highlighted)
    IN  [nodes |-> done.nodes, edges |-> done.edges]

\* the useMemo callback: data is the query's data (None while undefined),
\* highlighted the highlightedNodeId
Layout(data, highlighted) ==
    IF ~IsSome(data) THEN [nodes |-> << >>, edges |-> << >>]
    ELSE
    LET d     == Get(data)
        start == [nodes |-> <<PatientNode(d)>>, edges |-> << >>,
                  currentY |-> StartY]
        done  == LayoutAlerts(LayoutConditions(start, d, d.conditions, highlighted),
                              d, highlighted)
    IN  [nodes |-> done.nodes, edges |-> done.edges]

\* ------------------------------------------------------------------------
\* PatientMindMap: the histories its queries are answered with
\* ------------------------------------------------------------------------
\* prescriptions of the viewed histories: MaxMeds line items under "Flu"
\* (prescribed a month after the others), one under "flu", none under a
\* missing diagnosis
ViewRxBodies ==
    {RxBody(Some(StrFlu), <<Some(Date0201), Some(Date0301)>>,
            Some(MedList(MaxMeds))),
     RxBody(Some(StrFluLower), DefaultDates, Some(MedList(1))),
     RxBody(None, DefaultDates, Some(MedList(0)))}

\* the histories of patient 1: every list of 0..MaxPrescriptions of these
\* prescriptions, without and with allergies
ViewHistories1 ==
    {Some(BareBody(Some(BackendPatient(1, Some(StrAnn), Some(StrLee),
                                       Some(AllergyList(n)))),
                   Some(l))) :
        n \in {0, MaxAllergies},
        l \in RxLists(MaxPrescriptions, ViewRxBodies, FALSE)}

\* the history of patient 2
ViewHistories2 ==
    {Some(BareBody(Some(BackendPatient(2, Some(StrBob), Some(StrRay),
                                       Some(AllergyList(1)))),
                   Some(<<Some(WithId(RxBody(Some(StrFlu), DefaultDates,
                                             Some(MedList(1))), 1))>>)))}

Backends ==
    {[p \in PatientIds |-> IF p = <<"p","1">> THEN h1 ELSE h2] :
        h1 \in ViewHistories1, h2 \in ViewHistories2}

\* ------------------------------------------------------------------------
\* PatientMindMap: component and query state
\* ------------------------------------------------------------------------
\* the component is mounted for one patient; useQuery starts the fetch of
\* its key; nothing is drawn while data is undefined
InitView ==
    /\ ServiceIdle
    /\ backend \in Backends
    /\ viewed \in {Some(p) : p \in PatientIds}
    /\ fetching = {Get(viewed)}
    /\ queryData = [p \in PatientIds |-> None]
    /\ highlightedNodeId = None
    /\ nodes = << >>
    /\ edges = << >>
    /\ SignedOut
    /\ supabaseConfigured = TRUE
    /\ FormUnmounted

\* the render that follows a change of data or highlightedNodeId: useMemo
\* recomputes nodes and edges from the data of the viewed key
Render ==
    LET drawn == Layout(queryData'[Get(viewed')], highlightedNodeId')
    IN  /\ nodes' = drawn.nodes
        /\ edges' = drawn.edges

\* the parent renders the component with another patientId: the observer
\* moves to that key and, the data being stale at once (staleTime: 0),
\* fetches it unless a fetch of the key is already in flight
ViewPatient ==
    /\ \E p \in PatientIds :
         /\ viewed # Some(p)
         /\ viewed' = Some(p)
         /\ fetching' = fetching \cup {p}
    /\ UNCHANGED <<backend, queryData, highlightedNodeId>>
    /\ Render
    /\ UNCHANGED <<call, auth, prescriptionForm>>

\* the viewed key is fetched again (remount, window focus, reconnect)
RefetchMindMap ==
    /\ Get(viewed) \notin fetching
    /\ fetching' = fetching \cup {Get(viewed)}
    /\ UNCHANGED <<backend, viewed, queryData, highlightedNodeId>>
    /\ Render
    /\ UNCHANGED <<call, auth, prescriptionForm>>

\* variant: the data that arrives is shown for the patient in view
ResolveMindMapQuery_IntoViewed ==
    /\ \E p \in fetching :
         /\ fetching' = fetching \ {p}
         /\ queryData' = [queryData EXCEPT ![Get(viewed)] =
               Some(getPatientMindMap(p, [ok |-> TRUE, body |-> backend[p]]).value)]
    /\ UNCHANGED <<backend, viewed, highlightedNodeId>>
    /\ Render
    /\ UNCHANGED <<call, auth, prescriptionForm>>

\* the queryFn of key p settles after api.get resolved with the history the
\* backend holds: its data goes to the cache entry of key p
ResolveMindMapQuery ==
    /\ \E p \in fetching :
         /\ fetching' = fetching \ {p}
         /\ queryData' = [queryData EXCEPT ![p] =
               Some(getPatientMindMap(p, [ok |-> TRUE, body |-> backend[p]]).value)]
    /\ UNCHANGED <<backend, viewed, highlightedNodeId>>
    /\ Render
    /\ UNCHANGED <<call, auth, prescriptionForm>>

\* the queryFn of key p settles after api.get rejected: getPatientMindMap
\* returns its fallback, which becomes the data of key p
FailMindMapQuery ==
    /\ \E p \in fetching :
         /\ fetching' = fetching \ {p}
         /\ queryData' = [queryData EXCEPT ![p] =
               Some(getPatientMindMap(p, [ok |-> FALSE, body |-> None]).value)]
    /\ UNCHANGED <<backend, viewed, highlightedNodeId>>
    /\ Render
    /\ UNCHANGED <<call, auth, prescriptionForm>>

\* onNodeClick: a node of the diagram is clicked
OnNodeClick ==
    /\ \E i \in 1..Len(nodes) :
         highlightedNodeId' = Some(nodes[i].id)
    /\ UNCHANGED <<backend, viewed, fetching, queryData>>
    /\ Render
    /\ UNCHANGED <<call, auth, prescriptionForm>>

\* onPaneClick: the empty canvas is clicked
OnPaneClick ==
    /\ highlightedNodeId' = None
    /\ UNCHANGED <<backend, viewed, fetching, queryData>>
    /\ Render
    /\ UNCHANGED <<call, auth, prescriptionForm>>

NextView ==
    \/ ViewPatient
    \/ RefetchMindMap
    \/ ResolveMindMapQuery
    \/ FailMindMapQuery
    \/ OnNodeClick
    \/ OnPaneClick

SpecView == InitView /\ [][NextView]_vars

\* ------------------------------------------------------------------------
\* authService.loginWithEmail
\* ------------------------------------------------------------------------
MinPasswordLength == 6

StrUser == <<"U","s","e","r">>

StrMockJwt == <<"m","o","c","k","-","j","w","t","-">>

StrMockId == <<"m","o","c","k","-","d","o","c","t","o","r","-","0","0","1">>

\* s.split('@')[0]: the text before the first '@', all of s without one
RECURSIVE BeforeAt(_)
BeforeAt(s) ==
    IF s = << >> \/ Head(s) = "@" THEN << >>
    ELSE <<Head(s)>> \o BeforeAt(Tail(s))

\* the body of verifyTokenWithBackend's try, for the response of
\* POST /auth/verify; a null body throws at response.valid
VerifiedUser(body) ==
    IF ~IsSome(body) THEN [threw |-> TRUE, value |-> None]
    ELSE LET r == Get(body) IN
         IF r.valid /\ IsSome(r.user)
         THEN [threw |-> FALSE,
               value |-> Some([id    |-> Get(r.user).id,
                               email |-> Get(r.user).email,
                               name  |-> BeforeAt(Get(r.user).email),
                               role  |-> Get(r.user).role])]
         ELSE [threw |-> FALSE, value |-> None]

\* verifyTokenWithBackend once api.post has settled: the user, or null
\* (None) when the token is not valid or anything failed
verifyTokenWithBackend(verified) ==
    IF ~verified.ok THEN None
    ELSE IF VerifiedUser(verified.body).threw THEN None
    ELSE VerifiedUser(verified.body).value

\* the User loginWithEmail builds from the Supabase user and backendUser
LoginUser(email, supabaseUser, backendUser) ==
    [id    |-> supabaseUser.id,
     email |-> OrElse(supabaseUser.email, email),
     name  |-> IF Truthy(supabaseUser.metadataName)
               THEN Get(supabaseUser.metadataName)
               ELSE IF IsSome(supabaseUser.email)
                       /\ BeforeAt(Get(supabaseUser.email)) # << >>
               THEN BeforeAt(Get(supabaseUser.email))
               ELSE StrUser,
     role  |-> IF IsSome(backendUser) THEN Get(backendUser).role ELSE "doctor"]

\* what callers pass
Emails == {<< >>, StrMail}

Passwords == {<< >>, <<"1","2","3">>, <<"s","e","c","r","e","t">>}

\* the access tokens Supabase issues
Tokens == {<<"j","w","t","1">>, <<"j","w","t","2">>}

\* the user of a Supabase session
SupabaseUsers ==
    {[id |-> <<"u","1">>, email |-> e, metadataName |-> n] :
        e \in {None, Some(StrMail)}, n \in {None, Some(StrAnn)}}

\* { data, error } of signInWithPassword: an error, no session, or a
\* session with its user
SignInResults ==
    {[error |-> TRUE, session |-> None, user |-> None],
     [error |-> FALSE, session |-> None, user |-> None]}
    \cup {[error |-> FALSE, session |-> Some([access_token |-> t]), user |-> Some(u)] :
            t \in Tokens, u \in SupabaseUsers}

\* bodies of POST /auth/verify
VerifyBodies ==
    {None}
    \cup {Some([valid |-> v, user |-> u]) :
            v \in BOOLEAN,
            u \in {None} \cup {Some([id |-> <<"u","1">>, email |-> StrMail,
                                     role |-> r]) : r \in {"doctor", "admin"}}}

\* Date.now() at the mock login
MockTimes == {1, 2}

NoSignIn == [error |-> FALSE, session |-> None, user |-> None]

InitAuth ==
    /\ ServiceIdle
    /\ ViewUnmounted
    /\ SignedOut
    /\ supabaseConfigured \in BOOLEAN
    /\ FormUnmounted

\* loginWithEmail is called and runs up to its first await, or throws at
\* one of its checks
CallLoginWithEmail ==
    /\ pc = "idle"
    /\ \E email \in Emails, password \in Passwords :
         /\ args' = [email |-> email, password |-> password]
         /\ IF email = << >> \/ password = << >>
            THEN pc' = "done" /\ result' = [rejected |-> TRUE, value |-> None]
            ELSE IF Len(password) < MinPasswordLength
            THEN pc' = "done" /\ result' = [rejected |-> TRUE, value |-> None]
            ELSE IF ~supabaseConfigured
            THEN pc' = "mockDelay" /\ result' = NoResult
            ELSE pc' = "signingIn" /\ result' = NoResult
    /\ op' = "loginWithEmail"
    /\ response' = [ok |-> FALSE, body |-> None, signIn |-> NoSignIn]
    /\ UNCHANGED <<view, auth, prescriptionForm>>

\* mockLogin after its delay: a mock token and the mock doctor are stored
ResolveMockLogin ==
    /\ pc = "mockDelay"
    /\ op = "loginWithEmail"
    /\ \E now \in MockTimes :
         LET user == [id    |-> StrMockId,
                      email |-> args.email,
                      name  |-> BeforeAt(args.email),
                      role  |-> "doctor"]
         IN  /\ authStore' = [token |-> Some(StrMockJwt \o IntToStr(now)),
                              user  |-> Some(user)]
             /\ result' = [rejected |-> FALSE, value |-> Some(user)]
    /\ pc' = "done"
    /\ UNCHANGED <<op, args, response, supabaseConfigured, view, prescriptionForm>>

\* signInWithPassword resolves: the login is rejected on an error or
\* without a session, otherwise the token is sent to POST /auth/verify
ResolveSignIn ==
    /\ pc = "signingIn"
    /\ op = "loginWithEmail"
    /\ \E data \in SignInResults :
         /\ response' = [ok |-> FALSE, body |-> None, signIn |-> data]
         /\ IF data.error \/ ~IsSome(data.session) \/ ~IsSome(data.user)
            THEN pc' = "done" /\ result' = [rejected |-> TRUE, value |-> None]
            ELSE pc' = "verifying" /\ result' = NoResult
    /\ UNCHANGED <<op, args, view, auth, prescriptionForm>>

\* signInWithPassword rejects: rethrown by the catch
RejectSignIn ==
    /\ pc = "signingIn"
    /\ op = "loginWithEmail"
    /\ pc' = "done"
    /\ result' = [rejected |-> TRUE, value |-> None]
    /\ UNCHANGED <<op, args, response, view, auth, prescriptionForm>>

\* the rest of loginWithEmail once verifyTokenWithBackend has returned:
\* the token and the user are stored
FinishLogin(verified) ==
    LET token == Get(response.signIn.session).access_token
        user  == LoginUser(args.email, Get(response.signIn.user),
                           verifyTokenWithBackend(verified))
    IN  /\ response' = [ok |-> verified.ok, body |-> verified.body,
                        signIn |-> response.signIn]
        /\ authStore' = [token |-> Some(token), user |-> Some(user)]
        /\ result' = [rejected |-> FALSE, value |-> Some(user)]
        /\ pc' = "done"
        /\ UNCHANGED <<op, args, supabaseConfigured, view, prescriptionForm>>

\* POST /auth/verify resolves
ResolveVerify ==
    /\ pc = "verifying"
    /\ op = "loginWithEmail"
    /\ \E body \in VerifyBodies : FinishLogin([ok |-> TRUE, body |-> body])

\* POST /auth/verify rejects (network, 401, 5xx)
RejectVerify ==
    /\ pc = "verifying"
    /\ op = "loginWithEmail"
    /\ FinishLogin([ok |-> FALSE, body |-> None])

NextAuth ==
    \/ CallLoginWithEmail
    \/ ResolveMockLogin
    \/ ResolveSignIn
    \/ RejectSignIn
    \/ ResolveVerify
    \/ RejectVerify
    \/ Settle

SpecAuth == InitAuth /\ [][NextAuth]_vars

\* ------------------------------------------------------------------------
\* useMultipleDiagnosisMedicines: one query per selected diagnosis
\* ------------------------------------------------------------------------
\* retry: 1
Retry == 1

\* String.prototype.trim
RECURSIVE TrimStart(_)
TrimStart(s) ==
    IF s # << >> /\ IsSpace(Head(s)) THEN TrimStart(Tail(s)) ELSE s

RECURSIVE TrimEnd(_)
TrimEnd(s) ==
    IF s # << >> /\ IsSpace(s[Len(s)])
    THEN TrimEnd(SubSeq(s, 1, Len(s) - 1))
    ELSE s

Trim(s) == TrimEnd(TrimStart(s))

\* variant: the name is lower-cased but not trimmed
NormalizedName_NoTrim(medicine) == ToLowerCase(Get(medicine.name))

\* normalizedName = medicine.name.toLowerCase().trim()
NormalizedName(medicine) == Trim(ToLowerCase(Get(medicine.name)))

\* allMedicines: the data of the queries that have data, in query order
RECURSIVE AllMedicines(_)
AllMedicines(qs) ==
    IF qs = << >> THEN << >>
    ELSE (IF IsSome(Head(qs).data) THEN Get(Head(qs).data) ELSE << >>)
         \o AllMedicines(Tail(qs))

\* uniqueMedicines: a medicine is pushed unless its normalized name was seen
RECURSIVE UniqueMedicines(_, _)
UniqueMedicines(allMedicines, seenNames) ==
    IF allMedicines = << >> THEN << >>
    ELSE LET medicine == Head(allMedicines) IN
         IF NormalizedName(medicine) \in seenNames
         THEN UniqueMedicines(Tail(allMedicines), seenNames)
         ELSE <<medicine>>
              \o UniqueMedicines(Tail(allMedicines),
                                 seenNames \cup {NormalizedName(medicine)})

\* what useQueries returns: the query of each selected diagnosis, in order
QueryResults == [i \in 1..Len(diagnosisIds) |-> queries[diagnosisIds[i]]]

\* the hook's data
HookData == UniqueMedicines(AllMedicines(QueryResults), {})

\* the hook's error: that of the first query that has one, or null
HookError ==
    IF \E i \in 1..Len(QueryResults) : IsSome(QueryResults[i].error)
    THEN QueryResults[CHOOSE i \in 1..Len(QueryResults) :
                         /\ IsSome(QueryResults[i].error)
                         /\ \A k \in 1..(i - 1) :
                               ~IsSome(QueryResults[k].error)].error
    ELSE None

StrAmoxSpaced == <<" ","A","M","O","X"," ">>

\* the medicines the backend lists for a diagnosis: the two diagnoses share
\* a medicine whose name differs in case and surrounding blanks
MedicinesListed(diagnosisId) ==
    IF diagnosisId = <<"d","x","1">>
    THEN [i \in 1..MaxMedicines |-> Medicine("a", i)]
    ELSE [i \in 1..MaxMedicines |->
            IF i = 1
            THEN [Medicine("b", 1) EXCEPT !.name = Some(StrAmoxSpaced)]
            ELSE Medicine("b", i + 1)]

\* how GET /diagnoses/:id/medicines can settle: rejected, or resolved
\* with an array of the first medicines listed
MedicineResponses(diagnosisId) ==
    {[ok |-> FALSE, body |-> None]}
    \cup {[ok |-> TRUE,
           body |-> JArray([i \in 1..n |->
                              Some(MedicinesListed(diagnosisId)[i])])] :
            n \in 0..MaxMedicines}

\* the query of a key gets an observer: it fetches unless it holds data
\* (fresh for staleTime) or is being fetched
Observe(query) ==
    IF query.status = "success" \/ query.fetchStatus = "fetching"
    THEN query
    ELSE [query EXCEPT !.fetchStatus = "fetching", !.failureCount = 0]

\* a query function settled with `outcome`: the data is stored; a
\* rejection is retried while failureCount < retry, then kept as the error
Settled(query, outcome) ==
    IF ~outcome.rejected
    THEN [query EXCEPT !.status = "success", !.fetchStatus = "idle",
                       !.data = Some(outcome.value), !.error = None,
                       !.failureCount = 0]
    ELSE IF query.failureCount < Retry
    THEN [query EXCEPT !.failureCount = @ + 1]
    ELSE [query EXCEPT !.status = "error", !.fetchStatus = "idle",
                       !.error = Some(<<"E","r","r","o","r">>),
                       !.failureCount = @ + 1]

\* the form is mounted without a selected diagnosis
InitHook ==
    /\ ServiceIdle
    /\ ViewUnmounted
    /\ SignedOut
    /\ supabaseConfigured = TRUE
    /\ FormUnmounted

\* a diagnosis is added to the selection: the hook renders with one more id
SelectDiagnosis ==
    /\ \E diagnosisId \in DiagnosisIds :
         /\ \A i \in 1..Len(diagnosisIds) : diagnosisIds[i] # diagnosisId
         /\ diagnosisIds' = Append(diagnosisIds, diagnosisId)
         /\ queries' = [queries EXCEPT
                           ![diagnosisId] = Observe(queries[diagnosisId])]
         /\ requestLog' =
               IF queries'[diagnosisId] = queries[diagnosisId]
               THEN requestLog
               ELSE [requestLog EXCEPT ![diagnosisId] = << >>]
    /\ UNCHANGED <<call, view, auth, row>>

\* a diagnosis is removed from the selection; its cache entry stays
\* (gcTime) and a fetch in flight goes on
DeselectDiagnosis ==
    /\ \E i \in 1..Len(diagnosisIds) :
         diagnosisIds' = SubSeq(diagnosisIds, 1, i - 1)
                         \o SubSeq(diagnosisIds, i + 1, Len(diagnosisIds))
    /\ UNCHANGED <<queries, requestLog, call, view, auth, row>>

\* diagnosisService.getMedicinesForDiagnosis(diagnosisId), the queryFn of
\* a fetching query, settles after GET /diagnoses/:id/medicines did
SettleMedicinesQuery ==
    /\ \E diagnosisId \in DiagnosisIds :
         /\ queries[diagnosisId].fetchStatus = "fetching"
         /\ \E settled \in MedicineResponses(diagnosisId) :
              /\ queries' = [queries EXCEPT
                    ![diagnosisId] =
                       Settled(queries[diagnosisId],
                               getMedicinesForDiagnosis(settled))]
              /\ requestLog' = [requestLog EXCEPT
                    ![diagnosisId] = Append(@, settled.ok)]
    /\ UNCHANGED <<diagnosisIds, call, view, auth, row>>

\* the data of a selected diagnosis is older than staleTime and the
\* network reconnects: the query is fetched again, its data kept meanwhile
RefetchStaleMedicines ==
    /\ \E i \in 1..Len(diagnosisIds) :
         /\ queries[diagnosisIds[i]].fetchStatus = "idle"
         /\ queries' = [queries EXCEPT
               ![diagnosisIds[i]] =
                  [@ EXCEPT !.fetchStatus = "fetching", !.failureCount = 0]]
         /\ requestLog' = [requestLog EXCEPT ![diagnosisIds[i]] = << >>]
    /\ UNCHANGED <<diagnosisIds, call, view, auth, row>>

NextHook ==
    \/ SelectDiagnosis
    \/ DeselectDiagnosis
    \/ SettleMedicinesQuery
    \/ RefetchStaleMedicines

SpecHook == InitHook /\ [][NextHook]_vars

\* ------------------------------------------------------------------------
\* MedicineRow: the suggestion list of the medicine name input
\* ------------------------------------------------------------------------
\* medicineName = form.watch(`medications.${index}.name`) || ''
MedicineName == formValues.name

\* filteredMedicines: all medicines for a blank name, else those whose
\* lower-cased name includes the lower-cased, trimmed name typed
FilteredMedicines ==
    IF MedicineName = << >> \/ Trim(MedicineName) = << >>
    THEN medicinesList
    ELSE SelectSeq(medicinesList,
                   LAMBDA med : Includes(ToLowerCase(Get(med.name)),
                                         Trim(ToLowerCase(MedicineName))))

\* the values handleSelectMedicine writes to the row's fields
SelectedValues(selectedMedicine) ==
    [name         |-> Get(selectedMedicine.name),
     dosage       |-> Get(selectedMedicine.defaultDosage),
     frequency    |-> Get(selectedMedicine.defaultFrequency),
     duration     |-> Get(selectedMedicine.defaultDuration),
     instructions |-> OrElse(selectedMedicine.instructions, << >>)]

\* handleSelectMedicine
handleSelectMedicine(selectedMedicine) ==
    /\ formValues' = SelectedValues(selectedMedicine)
    /\ showSuggestions' = FALSE
    /\ highlightedIndex' = 0 - 1

Keys == {"ArrowDown", "ArrowUp", "Enter", "Escape", "Tab"}

\* handleKeyDown
handleKeyDown(key) ==
    IF key = "ArrowDown" /\ ~showSuggestions /\ Len(medicinesList) > 0
    THEN /\ showSuggestions' = TRUE
         /\ highlightedIndex' = 0
         /\ UNCHANGED formValues
    ELSE IF ~showSuggestions \/ Len(FilteredMedicines) = 0
    THEN UNCHANGED <<formValues, showSuggestions, highlightedIndex>>
    ELSE IF key = "ArrowDown"
    THEN /\ highlightedIndex' =
               (IF highlightedIndex < Len(FilteredMedicines) - 1
                THEN highlightedIndex + 1 ELSE 0)
         /\ UNCHANGED <<formValues, showSuggestions>>
    ELSE IF key = "ArrowUp"
    THEN /\ highlightedIndex' =
               (IF highlightedIndex > 0
                THEN highlightedIndex - 1 ELSE Len(FilteredMedicines) - 1)
         /\ UNCHANGED <<formValues, showSuggestions>>
    ELSE IF key = "Enter"
    THEN IF highlightedIndex >= 0
            /\ highlightedIndex < Len(FilteredMedicines)
         THEN handleSelectMedicine(FilteredMedicines[highlightedIndex + 1])
         ELSE UNCHANGED <<formValues, showSuggestions, highlightedIndex>>
    ELSE /\ showSuggestions' = FALSE      \* Escape, Tab
         /\ highlightedIndex' = 0 - 1
         /\ UNCHANGED formValues

\* what the user may type into the name input
TypedNames ==
    {<< >>, <<"a">>, <<"I","B">>, <<"m","o","x"," ">>, <<"q">>}

\* the medicines a row may be given
RowMedicines ==
    {normalizeMedicines([i \in 1..n |-> Some(Medicine("a", i))]).value :
        n \in 0..(MaxMedicines + 1)}

\* the row is mounted with its medicines, its fields empty
InitRow ==
    /\ ServiceIdle
    /\ ViewUnmounted
    /\ SignedOut
    /\ supabaseConfigured = TRUE
    /\ diagnosisIds = << >>
    /\ queries = [id \in DiagnosisIds |-> IdleQuery]
    /\ requestLog = [id \in DiagnosisIds |-> << >>]
    /\ medicinesList \in RowMedicines
    /\ formValues = NoValues
    /\ showSuggestions = FALSE
    /\ highlightedIndex = 0 - 1
    /\ rowEvent = "none"

\* a key goes down in the name input
KeyDown ==
    /\ \E key \in Keys :
         /\ handleKeyDown(key)
         /\ rowEvent' = key
    /\ UNCHANGED <<call, view, auth, hook, medicinesList>>

\* the name input is clicked
ClickInput ==
    /\ IF Len(medicinesList) > 0
       THEN showSuggestions' = TRUE /\ highlightedIndex' = 0 - 1
       ELSE UNCHANGED <<showSuggestions, highlightedIndex>>
    /\ rowEvent' = "click"
    /\ UNCHANGED <<call, view, auth, hook, medicinesList, formValues>>

\* the name input gets the focus
FocusInput ==
    /\ showSuggestions' = (showSuggestions \/ Len(medicinesList) > 0)
    /\ rowEvent' = "focus"
    /\ UNCHANGED <<call, view, auth, hook, medicinesList, formValues,
                   highlightedIndex>>

\* the user edits the name: formField.onChange stores it
TypeName ==
    /\ \E name \in TypedNames :
         formValues' = [formValues EXCEPT !.name = name]
    /\ rowEvent' = "change"
    /\ UNCHANGED <<call, view, auth, hook, medicinesList, showSuggestions,
                   highlightedIndex>>

\* the pointer enters an item of the list shown
MouseEnterItem ==
    /\ showSuggestions
    /\ \E medIndex \in 0..(Len(FilteredMedicines) - 1) :
         highlightedIndex' = medIndex
    /\ rowEvent' = "mouseenter"
    /\ UNCHANGED <<call, view, auth, hook, medicinesList, formValues,
                   showSuggestions>>

\* an item of the list shown is clicked
ClickItem ==
    /\ showSuggestions
    /\ \E medIndex \in 0..(Len(FilteredMedicines) - 1) :
         handleSelectMedicine(FilteredMedicines[medIndex + 1])
    /\ rowEvent' = "select"
    /\ UNCHANGED <<call, view, auth, hook, medicinesList>>

\* a mouse button goes down outside the name field
ClickOutside ==
    /\ showSuggestions' = FALSE
    /\ highlightedIndex' = 0 - 1
    /\ rowEvent' = "mousedown"
    /\ UNCHANGED <<call, view, auth, hook, medicinesList, formValues>>

NextRow ==
    \/ KeyDown
    \/ ClickInput
    \/ FocusInput
    \/ TypeName
    \/ MouseEnterItem
    \/ ClickItem
    \/ ClickOutside

SpecRow == InitRow /\ [][NextRow]_vars

\* ------------------------------------------------------------------------
\* Properties of getPatientMindMap
\* ------------------------------------------------------------------------
MindMapDone == pc = "done" /\ op = "getPatientMindMap"

\* the history object the backend sent, out of its envelope
SentHistory ==
    LET b == Get(response.body) IN
    IF IsSome(b.data) THEN Get(Get(b.data))
    ELSE [patient |-> b.patient, prescriptions |-> b.prescriptions]

\* the body is a history whose patient and prescriptions are present and
\* whose array items are all non-null
HistoryWellFormed ==
    /\ IsSome(response.body)
    /\ LET b == Get(response.body) IN IsSome(b.data) => IsSome(Get(b.data))
    /\ IsSome(SentHistory.patient)
    /\ IsSome(SentHistory.prescriptions)
    /\ LET l == Get(SentHistory.prescriptions) IN
       \A i \in 1..Len(l) :
          /\ IsSome(l[i])
          /\ IsSome(Get(l[i]).medications) =>
               \A k \in 1..Len(Get(Get(l[i]).medications)) :
                  IsSome(Get(Get(l[i]).medications)[k])

\* a graph was built from a fetched history
MindMapBuilt == MindMapDone /\ response.ok /\ HistoryWellFormed

SentPrescriptions ==
    LET l == Get(SentHistory.prescriptions) IN [i \in 1..Len(l) |-> Get(l[i])]

SentAllergies ==
    LET a == Get(SentHistory.patient).allergies IN
    IF IsSome(a) THEN Get(a) ELSE << >>

Graph == result.value

\* the same call answered with the same patient and the prescriptions `l`
GraphFor(l) ==
    getPatientMindMap(args.patientId,
        [ok |-> TRUE, body |-> Some(BareBody(SentHistory.patient, Some(l)))]).value

\* the normalized slug of a prescription's diagnosis
NormalizedSlug(prescription) ==
    ReplaceWhitespaceRuns(ToLowerCase(
        IF Truthy(prescription.diagnosis) THEN Get(prescription.diagnosis)
        ELSE StrUnknownCondition))

RECURSIVE SumLens(_)
SumLens(lens) == IF lens = << >> THEN 0 ELSE Head(lens) + SumLens(Tail(lens))

\* C1: the number of Condition nodes equals the number of distinct
\* normalized diagnosis slugs among the prescriptions (diagnoses that differ
\* only in case or spacing collapse into one Condition).
C1_ConditionsAreDistinctSlugs ==
    MindMapBuilt =>
        Len(Graph.conditions) =
            Cardinality({NormalizedSlug(SentPrescriptions[i]) :
                            i \in 1..Len(SentPrescriptions)})

\* C2: each Encounter's conditionId is the id of exactly one Condition, each
\* Medication's encounterId is the id of exactly one Encounter, and an Alert
\* carries no parent reference.
C2_EveryNodeHasOneParent ==
    MindMapBuilt =>
        /\ \A i \in 1..Len(Graph.encounters) :
              Cardinality({j \in 1..Len(Graph.conditions) :
                  Graph.conditions[j].id = Graph.encounters[i].conditionId}) = 1
        /\ \A i \in 1..Len(Graph.medications) :
              Cardinality({j \in 1..Len(Graph.encounters) :
                  Graph.encounters[j].id = Graph.medications[i].encounterId}) = 1
        /\ \A i \in 1..Len(Graph.alerts) :
              DOMAIN Graph.alerts[i] = {"id", "type", "message", "severity"}

\* C3: the number of Encounter nodes equals the number of prescriptions,
\* whatever the grouping into Conditions.
C3_OneEncounterPerPrescription ==
    MindMapBuilt => Len(Graph.encounters) = Len(SentPrescriptions)

\* two prescriptions were grouped under one Condition
C3_Witness ==
    /\ MindMapBuilt
    /\ Len(SentPrescriptions) >= 2
    /\ Len(Graph.conditions) = 1
    /\ Len(Graph.encounters) >= 2

\* C4: the number of Medication nodes is the sum of the lengths of the
\* prescriptions' medication lists, a missing list counting zero.
C4_MedicationsSumLineItems ==
    MindMapBuilt =>
        Len(Graph.medications) =
            SumLens([i \in 1..Len(SentPrescriptions) |->
                        IF IsSome(SentPrescriptions[i].medications)
                        THEN Len(Get(SentPrescriptions[i].medications))
                        ELSE 0])

\* one prescription without a medications list, another with two items
C4_Witness ==
    /\ MindMapBuilt
    /\ \E i, j \in 1..Len(SentPrescriptions) :
          /\ ~IsSome(SentPrescriptions[i].medications)
          /\ IsSome(SentPrescriptions[j].medications)
          /\ Len(Get(SentPrescriptions[j].medications)) >= 2
    /\ Len(Graph.medications) >= 2

\* C5: there is one Alert per allergy, in allergy-list order, and the Alerts
\* are those of the same patient with no prescriptions at all.
C5_AlertsDependOnAllergiesOnly ==
    MindMapBuilt =>
        /\ Len(Graph.alerts) = Len(SentAllergies)
        /\ \A i \in 1..Len(Graph.alerts) :
              Graph.alerts[i].message = Get(SentAllergies[i]) \o StrAllergySuffix
        /\ Graph.alerts = GraphFor(<< >>).alerts

\* two allergies and a non-empty prescription list
C5_Witness ==
    /\ MindMapBuilt
    /\ Len(SentAllergies) >= 2
    /\ Len(SentPrescriptions) >= 1
    /\ Len(Graph.alerts) >= 2

\* the first prescription, in input order, whose diagnosis is `name`
FirstWithDiagnosis(name) ==
    CHOOSE i \in 1..Len(SentPrescriptions) :
        /\ DiagName(SentPrescriptions[i]) = name
        /\ \A k \in 1..(i - 1) : DiagName(SentPrescriptions[k]) # name

C7_OneUnknownCondition ==
    MindMapBuilt =>
        /\ \A i \in 1..Len(SentPrescriptions) :
              ~Truthy(SentPrescriptions[i].diagnosis) =>
                 /\ i <= Len(Graph.encounters)
                 /\ \E j \in 1..Len(Graph.conditions) :
                       /\ Graph.conditions[j].name = StrUnknownCondition
                       /\ Graph.encounters[i].conditionId = Graph.conditions[j].id
        /\ Cardinality({j \in 1..Len(Graph.conditions) :
                           Graph.conditions[j].name = StrUnknownCondition}) <= 1

\* one prescription without a diagnosis and one with the empty diagnosis
C7_Witness ==
    /\ MindMapBuilt
    /\ Len(SentPrescriptions) >= 2
    /\ SentPrescriptions[1].diagnosis = None
    /\ SentPrescriptions[2].diagnosis = Some(<< >>)
    /\ Len(Graph.conditions) = 1
    /\ Graph.conditions[1].name = StrUnknownCondition
    /\ Graph.encounters[2].conditionId = Graph.conditions[1].id

\* C8: getPatientMindMap never rejects; when the fetch fails or the history
\* cannot be processed it returns the graph named "Unknown Patient" with
\* empty conditions, encounters, medications and alerts.
C8_MindMapNeverThrows ==
    MindMapDone =>
        /\ result.rejected = FALSE
        /\ (~response.ok \/ ~HistoryWellFormed) =>
              /\ Graph.patientId = args.patientId
              /\ Graph.patientName = StrUnknownPatient
              /\ Graph.conditions = << >>
              /\ Graph.encounters = << >>
              /\ Graph.medications = << >>
              /\ Graph.alerts = << >>

\* the fetch was rejected and the fallback graph returned
C8_Witness ==
    /\ MindMapDone
    /\ ~response.ok
    /\ result.rejected = FALSE
    /\ Graph.patientName = StrUnknownPatient

\* ------------------------------------------------------------------------
\* Properties of getPatients and of malformed batches
\* ------------------------------------------------------------------------
PatientsDone == pc = "done" /\ op = "getPatients"

\* the patient list the backend sent, out of its envelope
SentPatients ==
    LET b == Get(response.body) IN
    IF b.isArray THEN b.items ELSE IF IsSome(b.data) THEN Get(b.data) ELSE << >>

\* a patient record that has its required identity fields
PatientWellFormed(p) ==
    /\ IsSome(p)
    /\ IsSome(Get(p).id)
    /\ IsSome(Get(p).patient_uid)
    /\ IsSome(Get(p).first_name)
    /\ IsSome(Get(p).last_name)

\* a well-formed patient is wanted by the search term
Wanted(p, search) ==
    \/ ~Truthy(search)
    \/ \E field \in {Get(p).first_name, Get(p).last_name,
                     Get(p).patient_uid, Get(p).email} :
          /\ IsSome(field)
          /\ Includes(ToLowerCase(Get(field)), ToLowerCase(Get(search)))

\* a prescription item that is non-null and whose medication items are
PrescriptionWellFormed(item) ==
    /\ IsSome(item)
    /\ IsSome(Get(item).medications) =>
          \A k \in 1..Len(Get(Get(item).medications)) :
             IsSome(Get(Get(item).medications)[k])

\* the history has its patient and its prescriptions array
HistoryHasBatch ==
    /\ IsSome(response.body)
    /\ LET b == Get(response.body) IN IsSome(b.data) => IsSome(Get(b.data))
    /\ IsSome(SentHistory.patient)
    /\ IsSome(SentHistory.prescriptions)

\* C9: one malformed record does not destroy the result for the rest of the
\* batch: getPatients still yields the well-formed patients (with or without
\* a search term), and getPatientMindMap still yields the Encounter of every
\* well-formed prescription.
C9_MalformedRecordSpared ==
    /\ (PatientsDone /\ response.ok /\ IsSome(response.body)
        /\ Cardinality({i \in 1..Len(SentPatients) :
                           ~PatientWellFormed(SentPatients[i])}) = 1)
       => /\ result.rejected = FALSE
          /\ Get(result.value).total >=
                Cardinality({i \in 1..Len(SentPatients) :
                    /\ PatientWellFormed(SentPatients[i])
                    /\ Wanted(SentPatients[i], args.search)})
    /\ (MindMapDone /\ response.ok /\ HistoryHasBatch
        /\ Cardinality({i \in 1..Len(Get(SentHistory.prescriptions)) :
              ~PrescriptionWellFormed(Get(SentHistory.prescriptions)[i])}) = 1)
       => \A i \in 1..Len(Get(SentHistory.prescriptions)) :
             LET item == Get(SentHistory.prescriptions)[i] IN
             PrescriptionWellFormed(item) =>
                \E j \in 1..Len(Graph.encounters) :
                   Graph.encounters[j].id = <<"e", "-">> \o Get(Get(item).id)

\* ------------------------------------------------------------------------
\* Properties of getMedicinesForDiagnosis
\* ------------------------------------------------------------------------
MedicinesDone == pc = "done" /\ op = "getMedicinesForDiagnosis"

\* (1) data is an object holding a medicines array
Shape1 ==
    /\ response.body.kind = "object"
    /\ Get(response.body.fields).data.kind = "object"
    /\ Get(Get(response.body.fields).data.fields).medicines.kind = "array"

\* (2) data is an array
Shape2 ==
    /\ response.body.kind = "object"
    /\ Get(response.body.fields).data.kind = "array"

\* (3) top-level medicines is an array
Shape3 ==
    /\ response.body.kind = "object"
    /\ Get(response.body.fields).medicines.kind = "array"

\* (4) the response itself is an array
Shape4 == response.body.kind = "array"

\* the array the priority order designates
PriorityArray ==
    IF Shape1 THEN Get(Get(response.body.fields).data.fields).medicines.items
    ELSE IF Shape2 THEN Get(response.body.fields).data.items
    ELSE IF Shape3 THEN Get(response.body.fields).medicines.items
    ELSE response.body.items

\* C10: the response is unwrapped in the priority (1) data.medicines,
\* (2) data, (3) medicines, (4) the response itself: the medicines returned
\* are those of the highest-priority shape the response matches.
C10_UnwrapPriority ==
    (MedicinesDone /\ response.ok /\ (Shape1 \/ Shape2 \/ Shape3 \/ Shape4)) =>
        /\ result.rejected = FALSE
        /\ Len(result.value) = Len(PriorityArray)
        /\ \A i \in 1..Len(PriorityArray) :
              result.value[i].id = Get(PriorityArray[i]).id

\* data is an array and medicines is an array, both non-empty: data wins
C10_Witness ==
    /\ MedicinesDone
    /\ response.ok
    /\ Shape2
    /\ Shape3
    /\ Len(Get(response.body.fields).data.items) >= 1
    /\ Len(Get(response.body.fields).medicines.items) >= 1
    /\ Len(result.value) >= 1
    /\ result.value[1].id = Get(Get(response.body.fields).data.items[1]).id
    /\ result.value[1].id # Get(Get(response.body.fields).medicines.items[1]).id

\* no known shape matches the response received
NoShapeMatches == ~(Shape1 \/ Shape2 \/ Shape3 \/ Shape4)

\* C11: for every response value (null, a scalar, an object matching none of
\* the four shapes, any other) and for every transport failure,
\* getMedicinesForDiagnosis does not throw and returns a list; the list is
\* empty whenever no known shape matches.
C11_MedicinesFailSoft ==
    MedicinesDone =>
        /\ result.rejected = FALSE
        /\ DOMAIN result.value = 1..Len(result.value)
        /\ (~response.ok \/ NoShapeMatches) => result.value = << >>

\* an object whose data and medicines are both present but not arrays
C11_Witness ==
    /\ MedicinesDone
    /\ response.ok
    /\ response.body.kind = "object"
    /\ Get(response.body.fields).data.kind = "scalar"
    /\ Get(response.body.fields).medicines.kind = "null"
    /\ result = [rejected |-> FALSE, value |-> << >>]

\* the name, date and allergy fields of a frontend patient
PatientDefaultsPresent(p) ==
    /\ IsSome(p.firstName)
    /\ IsSome(p.lastName)
    /\ IsSome(p.dateOfBirth)
    /\ IsSome(p.createdAt)
    /\ IsSome(p.updatedAt)
    /\ DOMAIN p.allergies = 1..Len(p.allergies)

\* the four autofill fields of a normalized medicine
MedicineDefaultsPresent(m) ==
    /\ IsSome(m.defaultDosage)
    /\ IsSome(m.defaultFrequency)
    /\ IsSome(m.defaultDuration)
    /\ IsSome(m.instructions)

\* C12: in every record the normalizer produces, a field absent on input
\* carries its default and is never undefined: a patient's name and date
\* fields are strings and its allergies a list; a medicine's defaultDosage,
\* defaultFrequency, defaultDuration and instructions are strings.
C12_AbsentFieldsGetDefaults ==
    /\ (PatientsDone /\ result.rejected = FALSE) =>
          \A i \in 1..Len(Get(result.value).data) :
             PatientDefaultsPresent(Get(result.value).data[i])
    /\ MedicinesDone =>
          \A i \in 1..Len(result.value) :
             MedicineDefaultsPresent(result.value[i])

\* the list returned, as the bare array a backend would send
AsBareArray(medicines) ==
    JArray([i \in 1..Len(medicines) |-> Some(medicines[i])])

\* the envelopes that carry one array
WrappedForms(array) ==
    {array,
     JObject(array, JUndefined),
     JObject(JUndefined, array),
     JObject(JObject(JUndefined, array), JUndefined)}

\* C13: normalizing an already-canonical bare array gives a list of the
\* same length and order with unchanged records (normalizing the output a
\* second time gives the same list), and every wrapped form of one array
\* gives the same result as the bare array.
C13_NormalizeIdempotent ==
    (MedicinesDone /\ response.ok /\ ~NoShapeMatches) =>
        /\ getMedicinesForDiagnosis(
              [ok |-> TRUE, body |-> AsBareArray(result.value)]) = result
        /\ Len(result.value) = Len(PriorityArray)
        /\ \A form \in WrappedForms(JArray(PriorityArray)) :
              getMedicinesForDiagnosis([ok |-> TRUE, body |-> form]) = result

\* a wrapped array whose first medicine has notes and no instructions: the
\* first pass copies the notes into the instructions
C13_Witness ==
    /\ MedicinesDone
    /\ response.ok
    /\ Shape2
    /\ Len(result.value) >= 2
    /\ ~IsSome(Get(PriorityArray[1]).instructions)
    /\ IsSome(result.value[1].notes)
    /\ result.value[1].instructions = result.value[1].notes

\* ------------------------------------------------------------------------
\* Properties of the PatientMindMap diagram
\* ------------------------------------------------------------------------
\* the data of the viewed key (None while undefined)
Shown == queryData[Get(viewed)]

\* the history the backend holds for the viewed patient
ViewedHistory == Get(backend[Get(viewed)])

\* what getPatientMindMap returns for patient p from the backend's history
BuiltFor(p) == getPatientMindMap(p, [ok |-> TRUE, body |-> backend[p]]).value

\* node ids with positions, and (source, target) pairs
Geometry(ns, es) ==
    [nodes |-> {<<ns[i].id, ns[i].x, ns[i].y>> : i \in 1..Len(ns)},
     edges |-> {<<es[k].source, es[k].target>> : k \in 1..Len(es)}]

Abs(n) == IF n >= 0 THEN n ELSE 0 - n

\* C15: no two nodes of one column overlap: two distinct nodes with the
\* same x are at least one node height apart in y; and the cursor only
\* increases: conditions, and encounters, are placed at increasing y in the
\* order they are laid out.
C15_NoOverlap ==
    \A i, j \in 1..Len(nodes) :
       (i < j /\ nodes[i].x = nodes[j].x) =>
          /\ Abs(nodes[j].y - nodes[i].y) >= NodeHeight
          /\ nodes[i].x \in {ConditionX, EncounterX} => nodes[i].y < nodes[j].y

\* two conditions, two encounters, two medications of one encounter and
\* two alerts are drawn
C15_Witness ==
    /\ \A x \in {ConditionX, EncounterX, AlertX} :
          Cardinality({i \in 1..Len(nodes) : nodes[i].x = x}) >= 2
    /\ \E k \in 1..Len(edges) :
          Cardinality({j \in 1..Len(edges) :
                          edges[j].source = edges[k].source
                          /\ edges[j].source[1] = "e"
                          /\ edges[j].source[2] = "n"}) >= 2

\* number of edges of the diagram from source to target
EdgeCount(source, target) ==
    Cardinality({k \in 1..Len(edges) :
                    edges[k].source = source /\ edges[k].target = target})

\* number of edges of the diagram into target
InDegree(target) ==
    Cardinality({k \in 1..Len(edges) : edges[k].target = target})

\* the x of the node with this id
ColumnOf(id) ==
    LET i == CHOOSE i \in 1..Len(nodes) : nodes[i].id = id IN nodes[i].x

\* C16: the edges are exactly one Patient->Condition edge per Condition,
\* one Condition->Encounter edge per Encounter (from its own Condition),
\* one Encounter->Medication edge per Medication (from its own Encounter)
\* and one Alert->Patient edge per Alert; no edge joins two nodes of one
\* level, every Condition, Encounter and Medication node has exactly one
\* incoming edge, and the graph is acyclic (every edge goes to a column
\* further right).
C16_EdgesFollowHierarchy ==
    IsSome(Shown) =>
      LET d == Get(Shown) IN
      /\ \A i \in 1..Len(d.conditions) :
            /\ EdgeCount(StrPatientNode,
                         StrConditionPrefix \o d.conditions[i].id) = 1
            /\ InDegree(StrConditionPrefix \o d.conditions[i].id) = 1
      /\ \A i \in 1..Len(d.encounters) :
            /\ EdgeCount(StrConditionPrefix \o d.encounters[i].conditionId,
                         StrEncPrefix \o d.encounters[i].id) = 1
            /\ InDegree(StrEncPrefix \o d.encounters[i].id) = 1
      /\ \A i \in 1..Len(d.medications) :
            /\ EdgeCount(StrEncPrefix \o d.medications[i].encounterId,
                         StrMedPrefix \o d.medications[i].id) = 1
            /\ InDegree(StrMedPrefix \o d.medications[i].id) = 1
      /\ \A i \in 1..Len(d.alerts) :
            EdgeCount(StrAlertPrefix \o d.alerts[i].id, StrPatientNode) = 1
      /\ Len(edges) = Len(d.conditions) + Len(d.encounters)
                      + Len(d.medications) + Len(d.alerts)
      /\ \A k \in 1..Len(edges) :
            ColumnOf(edges[k].source) < ColumnOf(edges[k].target)

\* C17: selection never changes geometry: whatever was clicked, the nodes,
\* their positions and the (source, target) pairs are those computed with
\* no node highlighted.
C17_SelectionKeepsGeometry ==
    Geometry(nodes, edges)
       = Geometry(Layout(Shown, None).nodes, Layout(Shown, None).edges)

\* a condition is selected and drawn so, with its branch
C17_Witness ==
    /\ IsSome(highlightedNodeId)
    /\ \E i \in 1..Len(nodes) :
          /\ nodes[i].id = Get(highlightedNodeId)
          /\ nodes[i].x = ConditionX
          /\ nodes[i].highlighted
    /\ \E k \in 1..Len(edges) : edges[k].strong
    /\ nodes # Layout(Shown, None).nodes

\* C18: last request wins: the data kept for a patient is that patient's,
\* and the diagram is drawn from the viewed patient's data only (from the
\* backend's history of that patient or from the fallback of a failed
\* fetch), whichever order the responses arrived in.
C18_LastRequestWins ==
    /\ \A p \in PatientIds :
          IsSome(queryData[p]) => Get(queryData[p]).patientId = p
    /\ \E data \in {None, Some(BuiltFor(Get(viewed))),
                    Some(FallbackMindMap(Get(viewed)))} :
          /\ nodes = Layout(data, highlightedNodeId).nodes
          /\ edges = Layout(data, highlightedNodeId).edges
          /\ Shown = data

\* patient 2 is viewed and drawn; the response for patient 1, asked for
\* first, has arrived too
C18_Witness ==
    /\ viewed = Some(<<"p","2">>)
    /\ fetching = {}
    /\ IsSome(queryData[<<"p","1">>])
    /\ Get(queryData[<<"p","1">>]).patientName = StrAnn \o <<" ">> \o StrLee
    /\ Len(nodes) > 1
    /\ nodes[1].label = Some(StrBob \o <<" ">> \o StrRay)

\* the backend's history of the viewed patient has no prescription and no
\* allergy
ZeroHistory ==
    /\ Get(ViewedHistory.prescriptions) = << >>
    /\ Get(Get(ViewedHistory.patient).allergies) = << >>

\* C19: a patient with zero prescriptions and zero allergies yields a
\* diagram of the Patient node alone, without edges.
C19_BarePatient ==
    (IsSome(Shown) /\ ZeroHistory) =>
        /\ Len(nodes) = 1
        /\ nodes[1].id = StrPatientNode
        /\ nodes[1].x = 0
        /\ nodes[1].y = 0
        /\ edges = << >>

\* the history resolved: the node carries the patient's name
C19_Witness ==
    /\ IsSome(Shown)
    /\ ZeroHistory
    /\ nodes = <<FlowNode(StrPatientNode, 0, 0,
                          Some(StrAnn \o <<" ">> \o StrLee), FALSE)>>
    /\ edges = << >>

\* ------------------------------------------------------------------------
\* Properties of authService.loginWithEmail
\* ------------------------------------------------------------------------
\* a Supabase email/password login has completed
SupabaseLoginDone ==
    /\ pc = "done"
    /\ op = "loginWithEmail"
    /\ result.rejected = FALSE
    /\ supabaseConfigured

\* C20: a Supabase email/password login completes (token and user are in
\* the auth store) only after the backend has verified the token as valid,
\* and the stored user's role is the role the backend returned.
C20_LoginOnlyAfterVerification ==
    SupabaseLoginDone =>
        /\ authStore.token = Some(Get(response.signIn.session).access_token)
        /\ IsSome(authStore.user)
        /\ response.ok
        /\ IsSome(response.body)
        /\ Get(response.body).valid
        /\ IsSome(Get(response.body).user)
        /\ Get(authStore.user).role = Get(Get(response.body).user).role

\* ------------------------------------------------------------------------
\* Properties of the dates and of the order of the graph
\* ------------------------------------------------------------------------
\* the date the text of the specification gives a prescription
DateOfPrescription(prescription) ==
    IF Truthy(prescription.prescribed_date)
    THEN Get(prescription.prescribed_date)
    ELSE IF Truthy(prescription.created_at)
    THEN Get(prescription.created_at)
    ELSE StrUnknownDate

\* C21: every Encounter's date is the prescription's prescribed date if
\* present, else its created date, else "Unknown Date"; every Medication's
\* prescribedDate is the date of the Encounter it belongs to, and every
\* Medication is active.
C21_DatesCarriedForward ==
    MindMapBuilt =>
        /\ Len(Graph.encounters) = Len(SentPrescriptions)
        /\ \A i \in 1..Len(SentPrescriptions) :
              Graph.encounters[i].date = DateOfPrescription(SentPrescriptions[i])
        /\ \A k \in 1..Len(Graph.medications) :
              /\ Graph.medications[k].active = TRUE
              /\ \E i \in 1..Len(Graph.encounters) :
                    /\ Graph.encounters[i].id = Graph.medications[k].encounterId
                    /\ Graph.encounters[i].date = Graph.medications[k].prescribedDate

\* a prescription with a created date only, and one with no date at all,
\* each with a medication
C21_Witness ==
    /\ MindMapBuilt
    /\ Len(SentPrescriptions) >= 2
    /\ ~IsSome(SentPrescriptions[1].prescribed_date)
    /\ SentPrescriptions[1].created_at = Some(Date0301)
    /\ ~IsSome(SentPrescriptions[2].prescribed_date)
    /\ ~IsSome(SentPrescriptions[2].created_at)
    /\ Len(Graph.medications) >= 2
    /\ Graph.medications[1].prescribedDate = Date0301
    /\ Graph.medications[2].prescribedDate = StrUnknownDate

\* C22: the diagnosedDate of a Condition is the date of the prescription
\* that created it: the same value as the date of the Encounter created
\* from that prescription, also when the prescription has a created date
\* only.
C22_DiagnosedDateIsEncounterDate ==
    MindMapBuilt =>
        \A j \in 1..Len(Graph.conditions) :
           Graph.conditions[j].diagnosedDate =
              Some(Graph.encounters[FirstWithDiagnosis(
                                       Graph.conditions[j].name)].date)

\* the prescriptions of the viewed patient's history
ViewedPrescriptions ==
    LET l == Get(ViewedHistory.prescriptions) IN [i \in 1..Len(l) |-> Get(l[i])]

\* the position, in the viewed prescription list, of the first prescription
\* whose diagnosis is `name`
FirstSeenAt(name) ==
    CHOOSE i \in 1..Len(ViewedPrescriptions) :
        /\ DiagName(ViewedPrescriptions[i]) = name
        /\ \A k \in 1..(i - 1) : DiagName(ViewedPrescriptions[k]) # name

\* the Condition nodes of the diagram, in the order they were pushed
ConditionNodesDrawn == SelectSeq(nodes, LAMBDA n : n.x = ConditionX)

\* the diagram shows a graph built from the backend's history
ShownBuilt ==
    /\ IsSome(Shown)
    /\ Get(Shown).patientName # StrUnknownPatient

\* C23: the Conditions are kept, and laid out top to bottom, in the order
\* in which their diagnosis first appears in the prescription list,
\* whatever the prescriptions' dates.
C23_ConditionsInFirstSeenOrder ==
    ShownBuilt =>
        LET conditions == Get(Shown).conditions IN
        /\ \A j \in 1..Len(conditions) :
              \E i \in 1..Len(ViewedPrescriptions) :
                 DiagName(ViewedPrescriptions[i]) = conditions[j].name
        /\ \A j, k \in 1..Len(conditions) :
              j < k => FirstSeenAt(conditions[j].name)
                          < FirstSeenAt(conditions[k].name)
        /\ \A j \in 1..Len(ViewedPrescriptions) :
              \E k \in 1..Len(conditions) :
                 conditions[k].name = DiagName(ViewedPrescriptions[j])
        /\ \A j, k \in 1..Len(ConditionNodesDrawn) :
              j < k =>
                 \E a, b \in 1..Len(conditions) :
                    /\ ConditionNodesDrawn[j].label = Some(conditions[a].name)
                    /\ ConditionNodesDrawn[k].label = Some(conditions[b].name)
                    /\ FirstSeenAt(conditions[a].name)
                          < FirstSeenAt(conditions[b].name)
                    /\ ConditionNodesDrawn[j].y < ConditionNodesDrawn[k].y
        /\ Len(ConditionNodesDrawn) = Len(conditions)

\* "Flu" prescribed in February comes first in the list, the prescription
\* without diagnosis of January second: Flu is drawn above Unknown Condition
C23_Witness ==
    /\ ShownBuilt
    /\ Len(ViewedPrescriptions) >= 2
    /\ ViewedPrescriptions[1].prescribed_date = Some(Date0201)
    /\ ViewedPrescriptions[2].prescribed_date = Some(Date0101)
    /\ Len(ConditionNodesDrawn) >= 2
    /\ ConditionNodesDrawn[1].label = Some(StrFlu)
    /\ ConditionNodesDrawn[2].label = Some(StrUnknownCondition)
    /\ ConditionNodesDrawn[1].y < ConditionNodesDrawn[2].y

\* least and greatest element of a non-empty set of integers
MinOf(S) == CHOOSE m \in S : \A n \in S : m <= n
MaxOf(S) == CHOOSE m \in S : \A n \in S : m >= n

\* the Medication nodes drawn with an edge from the node `id`
MedsDrawnOf(id) ==
    {k \in 1..Len(nodes) :
        nodes[k].x = MedX /\ EdgeCount(id, nodes[k].id) > 0}

\* the Encounter nodes drawn with an edge from the node `id`
EncountersDrawnOf(id) ==
    {k \in 1..Len(nodes) :
        nodes[k].x = EncounterX /\ EdgeCount(id, nodes[k].id) > 0}

\* the subtree drawn under the Condition node `id`: its Encounter nodes and
\* their Medication nodes
SubtreeDrawnOf(id) ==
    EncountersDrawnOf(id)
    \cup UNION {MedsDrawnOf(nodes[k].id) : k \in EncountersDrawnOf(id)}

\* twice the midpoint of the vertical span of the nodes S, a node
\* occupying y..y + NodeHeight
TwiceMidOfSpan(S) ==
    MinOf({nodes[k].y : k \in S}) + MaxOf({nodes[k].y + NodeHeight : k \in S})

\* twice the vertical centre of node i
TwiceCentre(i) == 2 * nodes[i].y + NodeHeight

\* C24: the vertical centre of every Condition node is the midpoint of the
\* vertical span of the Encounter and Medication nodes it owns.
C24_ConditionCentredOnSubtree ==
    \A i \in 1..Len(nodes) :
       (nodes[i].x = ConditionX /\ SubtreeDrawnOf(nodes[i].id) # {}) =>
          TwiceCentre(i) = TwiceMidOfSpan(SubtreeDrawnOf(nodes[i].id))

\* C25: the vertical centre of every Encounter node is the midpoint between
\* the top of its first and the bottom of its last Medication node; after
\* an Encounter without medications the next Encounter of the Condition
\* comes one row (a node and a gap) and the gap between Encounters lower,
\* as after an Encounter with one medication.
C25_EncounterCentredOnMedications ==
    \A i \in 1..Len(nodes) :
       nodes[i].x = EncounterX =>
          /\ MedsDrawnOf(nodes[i].id) # {} =>
                TwiceCentre(i) = TwiceMidOfSpan(MedsDrawnOf(nodes[i].id))
          /\ \A j \in 1..Len(nodes) :
                (/\ j = i + 1
                 /\ nodes[j].x = EncounterX
                 /\ MedsDrawnOf(nodes[i].id) = {}
                 /\ MedsDrawnOf(nodes[j].id) = {}) =>
                    nodes[j].y - nodes[i].y = (NodeHeight + Gap) + Gap

\* the branch (1 for the first Condition drawn, 2 for the second, ...) that
\* the Condition node i closes
BranchOfNode(i) ==
    Cardinality({j \in 1..i : nodes[j].x = ConditionX})

\* edge k is an edge of a Condition's branch: its Patient->Condition edge
\* or one of the edges pushed before it
IsBranchEdge(k) ==
    \E j \in k..Len(edges) : edges[j].source = StrPatientNode

\* the branch that edge k belongs to
BranchOfEdge(k) ==
    1 + Cardinality({j \in 1..(k - 1) : edges[j].source = StrPatientNode})

\* whichever Condition node carries the highlighted id, the edges drawn
\* highlighted are exactly those of its branch
HighlightFollowsCondition ==
    \A i \in 1..Len(nodes) :
       (nodes[i].x = ConditionX /\ highlightedNodeId = Some(nodes[i].id)) =>
          \A k \in 1..Len(edges) :
             edges[k].strong <=>
                (IsBranchEdge(k) /\ BranchOfEdge(k) = BranchOfNode(i))

\* with no highlighted id nothing is drawn highlighted
NothingHighlightedWhenReset ==
    highlightedNodeId = None =>
       /\ \A k \in 1..Len(edges) : ~edges[k].strong
       /\ \A i \in 1..Len(nodes) : ~nodes[i].highlighted

\* C26: the highlighted id only changes to the id of a drawn node (a node
\* click) or to none (a click on the empty canvas); while it is the id of
\* a Condition, exactly the edges Patient -> that Condition, that
\* Condition -> its Encounters and those Encounters -> their Medications
\* are drawn highlighted, none of another Condition; while it is none,
\* no edge and no node is drawn highlighted.
C26_HighlightStateMachine ==
    [][/\ highlightedNodeId' # highlightedNodeId =>
             \/ highlightedNodeId' = None
             \/ \E i \in 1..Len(nodes) :
                   highlightedNodeId' = Some(nodes[i].id)
       /\ HighlightFollowsCondition /\ HighlightFollowsCondition'
       /\ NothingHighlightedWhenReset /\ NothingHighlightedWhenReset']_vars

\* ------------------------------------------------------------------------
\* Properties of useMultipleDiagnosisMedicines
\* ------------------------------------------------------------------------
\* the positions <<query, item>> of the medicines the queries hold
LoadedAt ==
    {<<i, k>> \in (1..Len(diagnosisIds)) \X (1..MaxMedicines) :
        /\ IsSome(queries[diagnosisIds[i]].data)
        /\ k <= Len(Get(queries[diagnosisIds[i]].data))}

\* the medicine held at a position
LoadedMedicine(at) == Get(queries[diagnosisIds[at[1]]].data)[at[2]]

\* query order: by query, then by place in the query's list
ComesBefore(a, b) == a[1] < b[1] \/ (a[1] = b[1] /\ a[2] < b[2])

\* lower-cased and trimmed name
Folded(name) == Trim(ToLowerCase(name))

\* the first position, in query order, holding a medicine of this name
\* (lower-cased and trimmed)
FirstLoadedAt(name) ==
    CHOOSE at \in LoadedAt :
       /\ Folded(Get(LoadedMedicine(at).name)) = name
       /\ \A b \in LoadedAt :
             ComesBefore(b, at) => Folded(Get(LoadedMedicine(b).name)) # name

\* C27: the hook's data holds no two medicines of the same lower-cased,
\* trimmed name, holds a medicine for every name some query holds, each
\* being the first occurrence of its name in query order, and keeps the
\* order of these first occurrences.
C27_MergedWithoutDuplicates ==
    /\ \A a, b \in 1..Len(HookData) :
          a # b => Folded(Get(HookData[a].name)) # Folded(Get(HookData[b].name))
    /\ \A at \in LoadedAt :
          \E a \in 1..Len(HookData) :
             Folded(Get(HookData[a].name))
                = Folded(Get(LoadedMedicine(at).name))
    /\ \A a \in 1..Len(HookData) :
          /\ \E at \in LoadedAt :
                Folded(Get(LoadedMedicine(at).name))
                   = Folded(Get(HookData[a].name))
          /\ HookData[a]
                = LoadedMedicine(FirstLoadedAt(Folded(Get(HookData[a].name))))
    /\ \A a, b \in 1..Len(HookData) :
          a < b => ComesBefore(FirstLoadedAt(Folded(Get(HookData[a].name))),
                               FirstLoadedAt(Folded(Get(HookData[b].name))))

\* both diagnoses are selected and loaded; "Amox" of the first and
\* " AMOX " of the second are merged into the first
C27_Witness ==
    /\ Len(diagnosisIds) = 2
    /\ \E a, b \in LoadedAt :
          /\ a[1] = 1 /\ b[1] = 2
          /\ LoadedMedicine(a).name # LoadedMedicine(b).name
          /\ Folded(Get(LoadedMedicine(a).name))
                = Folded(Get(LoadedMedicine(b).name))
    /\ Len(HookData) >= 2
    /\ Len(HookData) < Cardinality(LoadedAt)

\* the latest fetch of the query is over and its last GET was rejected
RequestFailed(diagnosisId) ==
    /\ queries[diagnosisId].fetchStatus = "idle"
    /\ requestLog[diagnosisId] # << >>
    /\ ~requestLog[diagnosisId][Len(requestLog[diagnosisId])]

\* C28: when the medicines request of a selected diagnosis has failed, it
\* was tried twice (retried once), the query is not a success, and the
\* hook's error is the error of the first failed query, not null.
C28_FailureReported ==
    \A i \in 1..Len(diagnosisIds) :
       RequestFailed(diagnosisIds[i]) =>
          /\ Len(requestLog[diagnosisIds[i]]) = Retry + 1
          /\ \A k \in 1..(Retry + 1) : ~requestLog[diagnosisIds[i]][k]
          /\ queries[diagnosisIds[i]].status = "error"
          /\ IsSome(HookError)
          /\ (\A k \in 1..(i - 1) : ~RequestFailed(diagnosisIds[k])) =>
                HookError = queries[diagnosisIds[i]].error

\* ------------------------------------------------------------------------
\* Properties of MedicineRow
\* ------------------------------------------------------------------------
\* highlightedIndex is -1 or the position of an item of the filtered list
IndexInRange ==
    highlightedIndex \in (0 - 1)..(Len(FilteredMedicines) - 1)

\* C30: whatever keys, hovers and edits of the name follow each other,
\* highlightedIndex stays within -1..(filtered length - 1); with the list
\* shown, ArrowDown on the last item goes to the first and ArrowUp on the
\* first (or on none) goes to the last; Enter fills the row only from an
\* item of the filtered list.
C30_HighlightedIndexInRange ==
    [][/\ IndexInRange /\ IndexInRange'
       /\ (/\ rowEvent' = "ArrowDown"
           /\ showSuggestions /\ Len(FilteredMedicines) > 0
           /\ highlightedIndex = Len(FilteredMedicines) - 1)
             => highlightedIndex' = 0
       /\ (/\ rowEvent' = "ArrowUp"
           /\ showSuggestions /\ Len(FilteredMedicines) > 0
           /\ highlightedIndex <= 0)
             => highlightedIndex' = Len(FilteredMedicines) - 1
       /\ (rowEvent' = "Enter" /\ formValues' # formValues)
             => \E k \in 1..Len(FilteredMedicines) :
                   formValues' = SelectedValues(FilteredMedicines[k])]_vars

\* number of nodes drawn with this id
NodesWithId(id) == Cardinality({i \in 1..Len(nodes) : nodes[i].id = id})

\* C29: the node ids and the edge ids of the diagram are unique, and every
\* Encounter and every Medication of the graph shown is drawn exactly
\* once, also when two diagnoses differ only in case.
C29_DrawnOnce ==
    /\ \A i, j \in 1..Len(nodes) : nodes[i].id = nodes[j].id => i = j
    /\ \A i, j \in 1..Len(edges) : edges[i].id = edges[j].id => i = j
    /\ IsSome(Shown) =>
          /\ \A k \in 1..Len(Get(Shown).encounters) :
                NodesWithId(StrEncPrefix \o Get(Shown).encounters[k].id) = 1
          /\ \A k \in 1..Len(Get(Shown).medications) :
                NodesWithId(StrMedPrefix \o Get(Shown).medications[k].id) = 1

====
